---- MODULE Spec2Model ----
(***************************************************************************)
(* Model of the lazy-loading cache, the index builders, the index search,  *)
(* the memoizer, the fuzzy searches, autocomplete, the batch lookups and   *)
(* the validation of new-vn-provinces.                                     *)
(*                                                                         *)
(* A JavaScript string is a sequence of one-character tokens; the token    *)
(* "A'" stands for an accented capital A, "a'" for an accented small a.    *)
(* An ID is an atomic string.  A Map is the sequence of its entries in     *)
(* insertion order, as the JavaScript Map keeps them.                      *)
(*                                                                         *)
(* The cache module exists in two variants with the same code shape: the   *)
(* two-level one (province, ward) in src/src/cache/index.ts and the        *)
(* three-level one (province, district, commune) in src/unnamed/part_006.  *)
(* The model follows the two-level variant; the level "ward" stands for    *)
(* every level that has a parent map.                                      *)
(***************************************************************************)
EXTENDS Integers, Sequences, FiniteSets, TLC

VARIABLES
    seed,           \* the exports of '../seeds/vietnam', per level
    loaded,         \* isProvinceDataLoaded / isWardDataLoaded
    data,           \* provinceData / wardData
    idMap,          \* provinceIdMap / wardIdMap
    parentMap,      \* wardsByProvinceMap
    searchIndex,    \* provinceSearchIndex / wardSearchIndex
    calls,          \* the async activations in flight, per slot
    loads,          \* history: how often the body of load<Level>Data ran
    firstCall,      \* history: was an accessor of the level ever called
    memoCache,      \* the Map of each memoize() closure
    promises,       \* the promises handed out by the memoized functions
    invocations,    \* history: the calls of the wrapped functions
    lastMemo,       \* history: the last call of a memoized function
    fuzzyIn,        \* the arguments of the call of a function of features/
    fuzzyOut,       \* the function called and the value it returned
    task            \* the batch lookup or validation in flight, and its result

vars == <<seed, loaded, data, idMap, parentMap, searchIndex, calls, loads,
          firstCall, memoCache, promises, invocations, lastMemo, fuzzyIn,
          fuzzyOut, task>>

cacheVars == <<loaded, data, idMap, parentMap, searchIndex>>
memoVars == <<memoCache, promises, invocations, lastMemo>>
fuzzyVars == <<fuzzyIn, fuzzyOut>>

(***************************************************************************)
(* Bounds.                                                                 *)
(***************************************************************************)
MaxCalls == 2       \* async activations that can be in flight together
MaxRecords == 2     \* records per level in the datasets of the query model
MaxTextLen == 3     \* characters of a text passed to normalizeText

Levels == {"province", "ward"}

(***************************************************************************)
(* Strings.                                                                *)
(***************************************************************************)
Space == " "

IsSpace(ch) == ch = Space

\* String.prototype.toLowerCase, per character
LowerChar(ch) ==
    CASE ch = "A" -> "a"
      [] ch = "B" -> "b"
      [] ch = "A'" -> "a'"
      [] OTHER -> ch

\* remove-accents, per character: the base letter, case kept
RemoveAccentChar(ch) ==
    CASE ch = "a'" -> "a"
      [] ch = "A'" -> "A"
      [] OTHER -> ch

toLowerCase(text) == [i \in 1..Len(text) |-> LowerChar(text[i])]

\* mutant: only the first accented character loses its accent
RECURSIVE removeFirstAccent(_)
removeFirstAccent(text) ==
    IF text = <<>> THEN <<>>
    ELSE IF RemoveAccentChar(Head(text)) # Head(text)
         THEN <<RemoveAccentChar(Head(text))>> \o Tail(text)
         ELSE <<Head(text)>> \o removeFirstAccent(Tail(text))

removeAccents(text) == [i \in 1..Len(text) |-> RemoveAccentChar(text[i])]

RECURSIVE trimStart(_)
trimStart(text) ==
    IF text # <<>> /\ IsSpace(Head(text)) THEN trimStart(Tail(text)) ELSE text

RECURSIVE trimEnd(_)
trimEnd(text) ==
    IF text # <<>> /\ IsSpace(text[Len(text)])
    THEN trimEnd(SubSeq(text, 1, Len(text) - 1))
    ELSE text

\* String.prototype.trim
trim(text) == trimEnd(trimStart(text))

\* normalizeText = removeAccents(text.toLowerCase().trim())
normalizeText(text) == removeAccents(trim(toLowerCase(text)))

\* String.prototype.includes
includes(s, t) ==
    \E i \in 0..(Len(s) - Len(t)) : SubSeq(s, i + 1, i + Len(t)) = t

\* String.prototype.substring(0, i)
substring0(s, i) == SubSeq(s, 1, i)

\* String.prototype.split(/\s+/): the pieces between the maximal runs of
\* white space; a string without white space is its own single piece
RECURSIVE splitWs(_)
splitWs(s) ==
    IF \A i \in 1..Len(s) : ~IsSpace(s[i])
    THEN <<s>>
    ELSE LET i == CHOOSE k \in 1..Len(s) :
                      IsSpace(s[k]) /\ \A m \in 1..(k - 1) : ~IsSpace(s[m])
             rest == trimStart(SubSeq(s, i, Len(s)))
         IN  <<SubSeq(s, 1, i - 1)>> \o splitWs(rest)

(***************************************************************************)
(* Map, as the sequence of its entries [key, value] in insertion order.    *)
(***************************************************************************)
NewMap == <<>>

MapHas(m, k) == \E i \in 1..Len(m) : m[i].key = k

MapIndex(m, k) == CHOOSE i \in 1..Len(m) : m[i].key = k

\* Map.prototype.set: a present key keeps its place
MapSet(m, k, v) ==
    IF MapHas(m, k)
    THEN [m EXCEPT ![MapIndex(m, k)].value = v]
    ELSE Append(m, [key |-> k, value |-> v])

MapKeys(m) == {m[i].key : i \in 1..Len(m)}

\* mutant: map.set(k, [item]) for every item, which drops the bucket
MapPushOverwriting(m, k, item) == MapSet(m, k, <<item>>)

\* mutant: map.get(k).unshift(item), which reverses the bucket
MapUnshift(m, k, item) ==
    IF MapHas(m, k)
    THEN [m EXCEPT ![MapIndex(m, k)].value = <<item>> \o @]
    ELSE Append(m, [key |-> k, value |-> <<item>>])

\* if (!map.has(k)) map.set(k, []); map.get(k).push(item)
MapPush(m, k, item) ==
    IF MapHas(m, k)
    THEN [m EXCEPT ![MapIndex(m, k)].value = Append(@, item)]
    ELSE Append(m, [key |-> k, value |-> <<item>>])

(***************************************************************************)
(* Index builders (utils).                                                 *)
(***************************************************************************)
RECURSIVE createIdMapFrom(_, _, _)
createIdMapFrom(map, items, idField) ==
    IF items = <<>> THEN map
    ELSE createIdMapFrom(MapSet(map, Head(items)[idField], Head(items)),
                         Tail(items), idField)

\* items.forEach(item => map.set(item[idField], item))
createIdMap(items, idField) == createIdMapFrom(NewMap, items, idField)

RECURSIVE createHierarchicalMapFrom(_, _, _)
createHierarchicalMapFrom(map, items, parentIdField) ==
    IF items = <<>> THEN map
    ELSE createHierarchicalMapFrom(
             MapPush(map, Head(items)[parentIdField], Head(items)),
             Tail(items), parentIdField)

\* items.forEach(item => bucket of item[parentIdField] .push(item))
createHierarchicalMap(items, parentIdField) ==
    createHierarchicalMapFrom(NewMap, items, parentIdField)

\* words.forEach(word => { if (word.length > 1) bucket of word .push(item) })
RECURSIVE indexWords(_, _, _)
indexWords(index, words, item) ==
    IF words = <<>> THEN index
    ELSE indexWords(IF Len(Head(words)) > 1
                    THEN MapPush(index, Head(words), item)
                    ELSE index,
                    Tail(words), item)

\* for (let i = from; i <= normalized.length; i++) bucket of prefix .push(item)
RECURSIVE indexPrefixes(_, _, _, _)
indexPrefixes(index, normalized, i, item) ==
    IF i > Len(normalized) THEN index
    ELSE indexPrefixes(MapPush(index, substring0(normalized, i), item),
                       normalized, i + 1, item)

\* mutant: the item is not indexed by its full name
indexItemWithoutFullName(index, item) ==
    LET normalized == normalizeText(item.name)
        words == splitWs(normalized)
        byWords == indexWords(index, words, item)
    IN  indexPrefixes(byWords, normalized, 2, item)

\* the loop body of createSearchIndex for one item
indexItem(index, item) ==
    LET normalized == normalizeText(item.name)
        words == splitWs(normalized)
        byName == MapPush(index, normalized, item)
        byWords == indexWords(byName, words, item)
    IN  indexPrefixes(byWords, normalized, 2, item)

RECURSIVE createSearchIndexFrom(_, _)
createSearchIndexFrom(index, items) ==
    IF items = <<>> THEN index
    ELSE createSearchIndexFrom(indexItem(index, Head(items)), Tail(items))

createSearchIndex(items) == createSearchIndexFrom(NewMap, items)

(***************************************************************************)
(* The cache: a module variable declared without a value is Unassigned.    *)
(***************************************************************************)
Unassigned == [assigned |-> FALSE, entries |-> <<>>]

Assigned(m) == [assigned |-> TRUE, entries |-> m]

ParentLevels == {"ward"}

idFieldOf(l) == IF l = "province" THEN "idProvince" ELSE "idWard"

parentIdFieldOf(l) == "idProvince"

NoResult == [tag |-> "none"]
Threw == [tag |-> "throw"]
Ok(v) == [tag |-> "ok", value |-> v]
Undefined == [undefined |-> TRUE]

IdleCall ==
    [pc |-> "idle", op |-> "none", level |-> "none", arg |-> <<>>,
     result |-> NoResult, startedLoaded |-> FALSE, promise |-> 0]

Slots == DOMAIN calls

Min(a, b) == IF a < b THEN a ELSE b

\* mutant: the guard `if (is<Level>DataLoaded) return;` is missing
loadNeverReturnsEarly(l) == FALSE

\* if (is<Level>DataLoaded) return;
loadReturnsEarly(l) == loaded[l]

\* mutant: the flag is set but the search index is not built
loadBodyWithoutSearchIndex(l) ==
    /\ data' = [data EXCEPT ![l] = seed[l]]
    /\ idMap' = [idMap EXCEPT ![l] = Assigned(createIdMap(seed[l], idFieldOf(l)))]
    /\ parentMap' =
         IF l \in ParentLevels
         THEN [parentMap EXCEPT ![l] =
                 Assigned(createHierarchicalMap(seed[l], parentIdFieldOf(l)))]
         ELSE parentMap
    /\ searchIndex' = searchIndex
    /\ loaded' = [loaded EXCEPT ![l] = TRUE]

\* mutant: one load fills every level
loadBodyOfEveryLevel(l) ==
    /\ data' = seed
    /\ idMap' = [k \in Levels |-> Assigned(createIdMap(seed[k], idFieldOf(k)))]
    /\ parentMap' = [k \in ParentLevels |->
                       Assigned(createHierarchicalMap(seed[k], parentIdFieldOf(k)))]
    /\ searchIndex' = [k \in Levels |-> Assigned(createSearchIndex(seed[k]))]
    /\ loaded' = [k \in Levels |-> TRUE]

\* mutant: the imported records are added to the dataset that is there
loadBodyAppending(l) ==
    /\ data' = [data EXCEPT ![l] = @ \o seed[l]]
    /\ idMap' = [idMap EXCEPT ![l] =
                   Assigned(createIdMap(data[l] \o seed[l], idFieldOf(l)))]
    /\ parentMap' =
         IF l \in ParentLevels
         THEN [parentMap EXCEPT ![l] =
                 Assigned(createHierarchicalMap(data[l] \o seed[l],
                                                parentIdFieldOf(l)))]
         ELSE parentMap
    /\ searchIndex' = [searchIndex EXCEPT ![l] =
                         Assigned(createSearchIndex(data[l] \o seed[l]))]
    /\ loaded' = [loaded EXCEPT ![l] = TRUE]

\* the rest of load<Level>Data, after the await of the import: the dataset,
\* the indexes, the flag, in one synchronous run
loadBody(l) ==
    /\ data' = [data EXCEPT ![l] = seed[l]]
    /\ idMap' = [idMap EXCEPT ![l] = Assigned(createIdMap(seed[l], idFieldOf(l)))]
    /\ parentMap' =
         IF l \in ParentLevels
         THEN [parentMap EXCEPT ![l] =
                 Assigned(createHierarchicalMap(seed[l], parentIdFieldOf(l)))]
         ELSE parentMap
    /\ searchIndex' = [searchIndex EXCEPT ![l] = Assigned(createSearchIndex(seed[l]))]
    /\ loaded' = [loaded EXCEPT ![l] = TRUE]

(***************************************************************************)
(* What an accessor does after `await load<Level>Data()`.  A method call   *)
(* on an Unassigned map throws a TypeError, which rejects the accessor's   *)
(* promise.                                                                *)
(***************************************************************************)
\* mutant: an array push instead of Set.prototype.add
SetAddAgain(results, item) == Append(results, item)

\* Set.prototype.add: a Set keeps insertion order and holds an item once
SetAdd(results, item) ==
    IF \E i \in 1..Len(results) : results[i] = item
    THEN results
    ELSE Append(results, item)

\* items.forEach(item => results.add(item))
RECURSIVE SetAddAll(_, _)
SetAddAll(results, items) ==
    IF items = <<>> THEN results
    ELSE SetAddAll(SetAdd(results, Head(items)), Tail(items))

\* mutant: only the test normalizedQuery.includes(key)
keyMatchesOneWay(key, normalizedQuery) == includes(normalizedQuery, key)

\* if (key.includes(normalizedQuery) || normalizedQuery.includes(key))
keyMatches(key, normalizedQuery) ==
    includes(key, normalizedQuery) \/ includes(normalizedQuery, key)

\* for (const [key, items] of index.entries()) { if (match) add the items }
RECURSIVE searchEntries(_, _, _)
searchEntries(results, entries, normalizedQuery) ==
    IF entries = <<>> THEN results
    ELSE searchEntries(
             IF keyMatches(Head(entries).key, normalizedQuery)
             THEN SetAddAll(results, Head(entries).value)
             ELSE results,
             Tail(entries), normalizedQuery)

\* return <level>Data
getData(l) == Ok(data[l])

\* return <level>IdMap.get(id)
getById(l, id) ==
    IF ~idMap[l].assigned THEN Threw
    ELSE IF MapHas(idMap[l].entries, id)
         THEN Ok(idMap[l].entries[MapIndex(idMap[l].entries, id)].value)
         ELSE Ok(Undefined)

\* return provinceIdMap.has(id)
isValidId(l, id) ==
    IF ~idMap[l].assigned THEN Threw ELSE Ok(MapHas(idMap[l].entries, id))

\* mutant: the `|| []` is missing
getChildrenWithoutDefault(l, parentId) ==
    IF ~parentMap[l].assigned THEN Threw
    ELSE IF MapHas(parentMap[l].entries, parentId)
         THEN Ok(parentMap[l].entries[MapIndex(parentMap[l].entries, parentId)].value)
         ELSE Ok(Undefined)

\* return <children>By<Parent>Map.get(parentId) || []
getChildren(l, parentId) ==
    IF ~parentMap[l].assigned THEN Threw
    ELSE IF MapHas(parentMap[l].entries, parentId)
         THEN Ok(parentMap[l].entries[MapIndex(parentMap[l].entries, parentId)].value)
         ELSE Ok(<<>>)

\* search<Level>s: normalize the query, scan the index, Array.from(results)
search(l, query) ==
    IF ~searchIndex[l].assigned THEN Threw
    ELSE Ok(searchEntries(<<>>, searchIndex[l].entries, normalizeText(query)))

\* the accessors of the cache module, by level
OpsOf(l) ==
    IF l = "province"
    THEN {"getData", "getById", "isValid", "search"}
    ELSE {"getData", "getById", "getChildren", "search"}

accessorResult(op, l, arg) ==
    CASE op = "getData" -> getData(l)
      [] op = "getById" -> getById(l, arg)
      [] op = "isValid" -> isValidId(l, arg)
      [] op = "getChildren" -> getChildren(l, arg)
      [] op = "search" -> search(l, arg)

(***************************************************************************)
(* Actions.  An async function runs synchronously up to its first await    *)
(* and then in one piece per resumption; the pieces of different calls     *)
(* interleave in any order.                                                *)
(***************************************************************************)
\* An accessor is called: it calls load<Level>Data, which returns at once
\* when the flag is set and otherwise starts the import and suspends.
Call(c, op, l, arg) ==
    /\ calls[c].pc \in {"idle", "done"}
    /\ calls' = [calls EXCEPT ![c] =
                   [pc |-> IF loadReturnsEarly(l) THEN "await" ELSE "import",
                    op |-> op, level |-> l, arg |-> arg, result |-> NoResult,
                    startedLoaded |-> loaded[l], promise |-> 0]]
    /\ firstCall' = [firstCall EXCEPT ![l] = TRUE]
    /\ UNCHANGED <<task, seed, fuzzyVars, cacheVars, loads, memoVars>>

\* The import has resolved: the rest of load<Level>Data runs for call c.
ImportResolved(c) ==
    /\ calls[c].pc = "import"
    /\ loadBody(calls[c].level)
    /\ calls' = [calls EXCEPT ![c].pc = "await"]
    /\ loads' = [loads EXCEPT ![calls[c].level] = Min(@ + 1, MaxCalls + 1)]
    /\ UNCHANGED <<task, seed, fuzzyVars, firstCall, memoVars>>

\* The accessor resumes after its await and reads the structures.
Resume(c) ==
    /\ calls[c].pc = "await"
    /\ calls[c].promise = 0
    /\ calls' = [calls EXCEPT
                   ![c].pc = "done",
                   ![c].result = accessorResult(calls[c].op, calls[c].level,
                                                calls[c].arg)]
    /\ UNCHANGED <<task, seed, fuzzyVars, cacheVars, loads, firstCall, memoVars>>

(***************************************************************************)
(* memoize and the memoized functions.                                     *)
(***************************************************************************)
Quote == "\""

\* JSON.stringify of a string without characters to escape
stringifyString(str) == <<Quote>> \o str \o <<Quote>>

RECURSIVE stringifyElements(_)
stringifyElements(args) ==
    IF args = <<>> THEN <<>>
    ELSE IF Len(args) = 1 THEN stringifyString(args[1])
    ELSE stringifyString(args[1]) \o <<",">> \o stringifyElements(Tail(args))

\* mutant: the key leaves the arguments out
stringifyWithoutElements(args) == <<"[", "]">>

\* const key = JSON.stringify(args), for a list of strings
stringify(args) == <<"[">> \o stringifyElements(args) \o <<"]">>

\* the character code natural-compare orders single characters by
charCode(ch) ==
    CASE ch = " " -> 32
      [] ch = "A" -> 65
      [] ch = "B" -> 66
      [] ch = "a" -> 97
      [] ch = "b" -> 98
      [] ch = "x" -> 120
      [] ch = "A'" -> 193
      [] ch = "a'" -> 225

\* compare(a, b) < 0 of natural-compare, for names without digits
RECURSIVE nameBefore(_, _)
nameBefore(a, b) ==
    IF b = <<>> THEN FALSE
    ELSE IF a = <<>> THEN TRUE
    ELSE IF charCode(Head(a)) # charCode(Head(b))
         THEN charCode(Head(a)) < charCode(Head(b))
         ELSE nameBefore(Tail(a), Tail(b))

\* the place of item in a list sorted by name; equal names keep their order
RECURSIVE insertByName(_, _)
insertByName(sorted, item) ==
    IF sorted = <<>> THEN <<item>>
    ELSE IF nameBefore(item.name, Head(sorted).name)
         THEN <<item>> \o sorted
         ELSE <<Head(sorted)>> \o insertByName(Tail(sorted), item)

\* items.sort((a, b) => compare(a.name, b.name)), a stable sort
RECURSIVE sortByName(_)
sortByName(items) ==
    IF items = <<>> THEN <<>>
    ELSE insertByName(sortByName(SubSeq(items, 1, Len(items) - 1)),
                      items[Len(items)])

MemoFns == {"getAllProvincesSorted", "searchProvinceByName", "searchWardByName"}

\* the cache accessor a wrapped function awaits, and its level
memoOp(f) == IF f = "getAllProvincesSorted" THEN "getData" ELSE "search"
memoLevel(f) == IF f = "searchWardByName" THEN "ward" ELSE "province"
memoArg(f, args) == IF f = "getAllProvincesSorted" THEN <<>> ELSE args[1]

\* what the wrapped function returns from the accessor's result: the sorted
\* list; a rejection of the accessor rejects the wrapped function
wrappedResult(f, r) == IF r.tag = "ok" THEN Ok(sortByName(r.value)) ELSE r

\* mutant: _getAllProvincesSorted sorts `provinces` itself, without the spread
sortsWithoutSpread(f) == f = "getAllProvincesSorted"

\* is the array that Array.prototype.sort reorders in place the cached
\* dataset?  _getAllProvincesSorted sorts the copy [...provinces], and the
\* searches sort the array that Array.from(results) made
sortsCachedDataset(f) == FALSE

NoMemoCall == [fn |-> "none", args |-> <<>>, key |-> <<>>, promise |-> 0, hit |-> FALSE]

\* mutant: the lookup never finds the key
cacheNeverHas(f, key) == FALSE

\* cache.has(key)
cacheHas(f, key) == MapHas(memoCache[f], key)

\* A memoized function is called.  A key in the cache returns the stored
\* promise.  Otherwise the wrapped async function is called, which runs up to
\* its first await (inside load<Level>Data) and returns a pending promise,
\* and the promise is stored under the key.
MemoCall(c, f, args) ==
    LET key == stringify(args)
        l == memoLevel(f)
        p == Len(promises) + 1
    IN  IF cacheHas(f, key)
        THEN /\ lastMemo' = [fn |-> f, args |-> args, key |-> key, hit |-> TRUE,
                             promise |-> memoCache[f][MapIndex(memoCache[f], key)].value]
             /\ UNCHANGED <<task, seed, fuzzyVars, cacheVars, calls, loads, firstCall, memoCache,
                            promises, invocations>>
        ELSE /\ calls[c].pc \in {"idle", "done"}
             /\ calls' = [calls EXCEPT ![c] =
                            [pc |-> IF loadReturnsEarly(l) THEN "await" ELSE "import",
                             op |-> memoOp(f), level |-> l, arg |-> memoArg(f, args),
                             result |-> NoResult, startedLoaded |-> loaded[l],
                             promise |-> p]]
             /\ firstCall' = [firstCall EXCEPT ![l] = TRUE]
             /\ promises' = Append(promises, [state |-> "pending", fn |-> f,
                                              value |-> NoResult])
             /\ invocations' = Append(invocations, <<f, args>>)
             /\ memoCache' = [memoCache EXCEPT ![f] = MapSet(@, key, p)]
             /\ lastMemo' = [fn |-> f, args |-> args, key |-> key, hit |-> FALSE,
                             promise |-> p]
             /\ UNCHANGED <<task, seed, fuzzyVars, cacheVars, loads>>

\* The accessor awaited by a wrapped function resumes and returns, the
\* wrapped function sorts an array in place and returns it, and its promise
\* settles.
MemoResume(c) ==
    /\ calls[c].pc = "await"
    /\ calls[c].promise # 0
    /\ LET r == wrappedResult(promises[calls[c].promise].fn,
                              accessorResult(calls[c].op, calls[c].level,
                                             calls[c].arg))
       IN  /\ calls' = [calls EXCEPT ![c].pc = "done", ![c].result = r]
           /\ promises' = [promises EXCEPT ![calls[c].promise] =
                             [@ EXCEPT !.state = IF r.tag = "ok" THEN "fulfilled"
                                                 ELSE "rejected",
                                       !.value = r]]
           /\ data' = IF r.tag = "ok" /\ sortsCachedDataset(promises[calls[c].promise].fn)
                      THEN [data EXCEPT ![calls[c].level] = r.value]
                      ELSE data
    /\ UNCHANGED <<task, seed, fuzzyVars, loaded, idMap, parentMap, searchIndex, loads,
                   firstCall, memoCache, invocations, lastMemo>>

(***************************************************************************)
(* Datasets and inputs.                                                    *)
(***************************************************************************)
Province(id, name) == [idProvince |-> id, name |-> name]
Ward(id, provinceId, name) == [idWard |-> id, idProvince |-> provinceId, name |-> name]

ProvinceIds == <<"01", "02", "03", "04">>
WardIds == <<"00004", "00008", "00012", "00016">>

\* IDs the callers ask for: IDs of records, and IDs of no record
IdPool == {"01", "02", "00004", "999"}

NamePool ==
    { <<"A'", "b">>,
      <<"a", "b", " ", "a", "b">>,
      <<"b", " ", "a", "b">>,
      <<"a">>,
      <<" ", "B", "a", " ">> }

QueryPool == { <<>>, <<" ">>, <<"A'", "B">>, <<"b", "a", "b">>, <<"x">> }

\* the provinces of the wards of a dataset, by position
WardParents == { <<"01", "01", "02", "01">>, <<"01", "02", "02", "01">> }

\* the datasets of n records of a level: IDs unique, in dataset order
RecordsOf(l, n) ==
    IF l = "province"
    THEN { [i \in 1..n |-> Province(ProvinceIds[i], names[i])] :
             names \in [1..n -> NamePool] }
    ELSE { [i \in 1..n |-> Ward(WardIds[i], parents[i], names[i])] :
             names \in [1..n -> NamePool], parents \in WardParents }

DatasetsOf(l, max) == UNION { RecordsOf(l, n) : n \in 0..max }

DefaultSeed ==
    [l \in Levels |->
       IF l = "province"
       THEN << Province("01", <<"A'", "b">>), Province("02", <<"b", " ", "a", "b">>) >>
       ELSE << Ward("00004", "01", <<"a", "b", " ", "a", "b">>),
               Ward("00008", "02", <<"b", "a">>),
               Ward("00012", "01", <<" ", "B", "a", " ">>) >>]

\* the arguments an accessor call can have
ArgsOf(op, ids, queries) ==
    CASE op = "getData" -> {<<>>}
      [] op \in {"getById", "isValid", "getChildren"} -> ids
      [] op = "search" -> queries

InitCache ==
    /\ loaded = [l \in Levels |-> FALSE]
    /\ data = [l \in Levels |-> <<>>]
    /\ idMap = [l \in Levels |-> Unassigned]
    /\ parentMap = [l \in ParentLevels |-> Unassigned]
    /\ searchIndex = [l \in Levels |-> Unassigned]
    /\ loads = [l \in Levels |-> 0]
    /\ firstCall = [l \in Levels |-> FALSE]

InitMemo ==
    /\ memoCache = [f \in MemoFns |-> NewMap]
    /\ promises = <<>>
    /\ invocations = <<>>
    /\ lastMemo = NoMemoCall

\* no function of features/fuzzy is called
NoFuzzyCall == [fn |-> "none"]

InitNoFuzzy ==
    /\ fuzzyIn = NoFuzzyCall
    /\ fuzzyOut = NoFuzzyCall

\* no batch lookup and no validation is called
NoTask ==
    [fn |-> "none", level |-> "none", ids |-> <<>>, pc |-> "idle",
     value |-> NoResult]

InitNoTask == task = NoTask

(***************************************************************************)
(* Spec: concurrent accessor calls over a fixed dataset.                   *)
(***************************************************************************)
SpecKinds ==
    { <<"getById", "province">>, <<"search", "province">>,
      <<"getChildren", "ward">>, <<"getData", "ward">> }

SpecArgOf(op) ==
    CASE op = "getById" -> "01"
      [] op = "getChildren" -> "01"
      [] op = "search" -> <<"A'", "B">>
      [] op = "getData" -> <<>>

Init ==
    /\ seed = DefaultSeed
    /\ calls = [c \in 1..MaxCalls |-> IdleCall]
    /\ InitCache
    /\ InitMemo
    /\ InitNoTask
    /\ InitNoFuzzy

Next ==
    \/ \E c \in Slots, k \in SpecKinds : Call(c, k[1], k[2], SpecArgOf(k[1]))
    \/ \E c \in Slots : ImportResolved(c)
    \/ \E c \in Slots : Resume(c)

Spec == Init /\ [][Next]_vars

(***************************************************************************)
(* SpecQuery: one call at a time over every small dataset of one level.    *)
(***************************************************************************)
NormalizedNames(s) ==
    UNION { {normalizeText(s[l][i].name) : i \in 1..Len(s[l])} : l \in Levels }

\* the IDs of the records of a dataset
IdsOf(records, idField) == {records[i][idField] : i \in 1..Len(records)}

\* every ward's idProvince references a record of the province dataset
Consistent(s) ==
    \A i \in 1..Len(s["ward"]) :
      s["ward"][i].idProvince \in IdsOf(s["province"], "idProvince")

\* the default datasets with the dataset of level l replaced by d; the
\* default wards of a province that d does not hold are left out
SeedWith(l, d) ==
    IF l = "province"
    THEN [province |-> d,
          ward |-> SelectSeq(DefaultSeed["ward"],
                             LAMBDA w : w.idProvince \in IdsOf(d, "idProvince"))]
    ELSE [DefaultSeed EXCEPT ![l] = d]

InitQuery ==
    /\ \E l \in Levels : \E d \in DatasetsOf(l, MaxRecords) :
         seed = SeedWith(l, d)
    /\ Consistent(seed)
    /\ calls = [c \in 1..1 |-> IdleCall]
    /\ InitCache
    /\ InitMemo
    /\ InitNoTask
    /\ InitNoFuzzy

NextQuery ==
    \/ \E c \in Slots, l \in Levels : \E op \in OpsOf(l) :
         \E arg \in ArgsOf(op, IdPool, QueryPool \cup NormalizedNames(seed)) :
           Call(c, op, l, arg)
    \/ \E c \in Slots : ImportResolved(c)
    \/ \E c \in Slots : Resume(c)

SpecQuery == InitQuery /\ [][NextQuery]_vars

(***************************************************************************)
(* Claims about the loading of a level.                                    *)
(***************************************************************************)
\* the structures of level l, and the count of the runs that assigned them
StructuresOf(l) ==
    <<data[l], idMap[l], searchIndex[l],
      IF l \in ParentLevels THEN parentMap[l] ELSE Unassigned, loads[l]>>

\* every structure of the level is assigned and was built from data[l],
\* which is the imported dataset
Populated(l) ==
    /\ data[l] = seed[l]
    /\ idMap[l] = Assigned(createIdMap(data[l], idFieldOf(l)))
    /\ l \in ParentLevels =>
         parentMap[l] = Assigned(createHierarchicalMap(data[l], parentIdFieldOf(l)))
    /\ searchIndex[l] = Assigned(createSearchIndex(data[l]))

\* no structure of the level has been touched
Untouched(l) ==
    /\ ~loaded[l]
    /\ data[l] = <<>>
    /\ ~idMap[l].assigned
    /\ l \in ParentLevels => ~parentMap[l].assigned
    /\ ~searchIndex[l].assigned
    /\ loads[l] = 0

\* C1: for each level, under any interleaving of accessor calls, the
\* dataset assignment and index construction of the level runs at most once.
C1_LoadRunsAtMostOnce == \A l \in Levels : loads[l] <= 1

\* C2: no torn reads: an accessor that resumes after awaiting the load finds
\* the dataset, the ID map, the parent map and the search index of its level
\* all assigned and built from the same dataset, and the loaded flag of a
\* level is true only when all of them are populated.
C2_NoTornReads ==
    /\ \A l \in Levels : loaded[l] => Populated(l)
    /\ \A c \in Slots : calls[c].pc = "await" => Populated(calls[c].level)
    /\ \A c \in Slots : calls[c].pc = "done" => calls[c].result.tag = "ok"

\* C2 witness: two calls of one level that both started before the load had
\* finished, both ran the load and both wait to resume and read.
C2_Witness ==
    \E c \in Slots, d \in Slots :
      /\ c # d
      /\ calls[c].pc = "await" /\ calls[d].pc = "await"
      /\ calls[c].level = calls[d].level
      /\ ~calls[c].startedLoaded /\ ~calls[d].startedLoaded

\* C3: Loaded is terminal: a loaded flag that is true stays true, and a call
\* that started when the flag was true returns without reassigning the
\* dataset or rebuilding an index of its level.
C3_LoadedIsTerminal ==
    [][ /\ \A l \in Levels : loaded[l] => loaded'[l]
        /\ \A c \in Slots :
             (calls[c].startedLoaded /\ calls[c].pc \in {"import", "await"}
                /\ calls'[c] # calls[c])
             => /\ calls[c].pc = "await" /\ calls'[c].pc = "done"
                /\ StructuresOf(calls[c].level)' = StructuresOf(calls[c].level)
      ]_vars

\* C3 witness: a call that started after its level was loaded has returned.
C3_Witness ==
    \E c \in Slots :
      calls[c].pc = "done" /\ calls[c].startedLoaded /\ loaded[calls[c].level]

\* C4: lazy, per-level loading: a level stays Unloaded until the first
\* accessor call for that level, and a step of an accessor call of one level
\* loads no dataset and builds no index of another level.
C4_LazyPerLevel ==
    /\ [](\A l \in Levels : ~firstCall[l] => Untouched(l))
    /\ [][ \A c \in Slots : calls'[c] # calls[c] =>
             \A l \in Levels \ {calls'[c].level} :
               /\ loaded'[l] = loaded[l]
               /\ StructuresOf(l)' = StructuresOf(l) ]_vars

\* C4 witness: the province level is loaded and read while no accessor of
\* the ward level was called and the ward level is Unloaded.
C4_Witness ==
    /\ loaded["province"] /\ Populated("province")
    /\ ~firstCall["ward"] /\ Untouched("ward")
    /\ \E c \in Slots : calls[c].pc = "done" /\ calls[c].level = "province"

(***************************************************************************)
(* Claims about lookups and the index search.                              *)
(***************************************************************************)
Range(q) == {q[i] : i \in 1..Len(q)}

NoDuplicates(q) == \A i \in 1..Len(q), j \in 1..Len(q) : q[i] = q[j] => i = j

\* the records of the dataset of level l
RecordsIn(l) == Range(seed[l])

\* a call of accessor op has returned
Returned(c, op) == calls[c].pc = "done" /\ calls[c].op = op

\* the search-index keys a record produces: its full normalized name, its
\* words longer than one character, its prefixes of two characters and more
KeysOf(r) ==
    LET normalized == normalizeText(r.name)
    IN  {normalized}
          \cup {w \in Range(splitWs(normalized)) : Len(w) > 1}
          \cup {substring0(normalized, i) : i \in 2..Len(normalized)}

\* C5: not-found is a value: for an ID of no record of the level, getById
\* returns undefined, and for a parent ID of no record of the level
\* getChildren returns an empty list; neither throws.
C5_NotFoundIsAValue ==
    \A c \in Slots :
      /\ (Returned(c, "getById")
            /\ calls[c].arg \notin IdsOf(seed[calls[c].level], idFieldOf(calls[c].level)))
         => calls[c].result = Ok(Undefined)
      /\ (Returned(c, "getChildren")
            /\ calls[c].arg \notin
                 IdsOf(seed[calls[c].level], parentIdFieldOf(calls[c].level)))
         => calls[c].result = Ok(<<>>)

\* C5 witness: a lookup of the ID "999", which no record has, has returned
\* from a level whose dataset is not empty.
C5_Witness ==
    \E c \in Slots :
      /\ Returned(c, "getById") \/ Returned(c, "getChildren")
      /\ calls[c].arg = "999"
      /\ seed[calls[c].level] # <<>>
      /\ calls[c].result \in {Ok(Undefined), Ok(<<>>)}

\* C6: index completeness: for every record r of a level's dataset,
\* getById(r.id) returns r, and r is an element of getChildren(r.parentId).
C6_IndexCompleteness ==
    \A c \in Slots :
      /\ Returned(c, "getById") =>
           \A r \in RecordsIn(calls[c].level) :
             r[idFieldOf(calls[c].level)] = calls[c].arg => calls[c].result = Ok(r)
      /\ Returned(c, "getChildren") =>
           \A r \in RecordsIn(calls[c].level) :
             r[parentIdFieldOf(calls[c].level)] = calls[c].arg
               => /\ calls[c].result.tag = "ok"
                  /\ r \in Range(calls[c].result.value)

\* C6 witness: getChildren has returned two records of one parent.
C6_Witness ==
    \E c \in Slots :
      /\ Returned(c, "getChildren")
      /\ Cardinality({r \in RecordsIn(calls[c].level) :
                        r[parentIdFieldOf(calls[c].level)] = calls[c].arg}) >= 2
      /\ Len(calls[c].result.value) >= 2

\* C7: search recall: for every record r of a level, the search for
\* normalize(r.name) contains r.
C7_SearchRecall ==
    \A c \in Slots :
      Returned(c, "search") =>
        \A r \in RecordsIn(calls[c].level) :
          calls[c].arg = normalizeText(r.name)
            => /\ calls[c].result.tag = "ok"
               /\ r \in Range(calls[c].result.value)

\* C7 witness: the search for the normalized name of a record whose name is
\* not in normalized form has returned that record.
C7_Witness ==
    \E c \in Slots :
      /\ Returned(c, "search")
      /\ \E r \in RecordsIn(calls[c].level) :
           /\ r.name # normalizeText(r.name)
           /\ calls[c].arg = normalizeText(r.name)
           /\ r \in Range(calls[c].result.value)

\* C8: search matching rule: the search for q returns exactly the records
\* r for which some index key k produced by r contains normalize(q) or is
\* contained in normalize(q), and no record occurs twice in the result.
C8_SearchMatchingRule ==
    \A c \in Slots :
      Returned(c, "search") =>
        /\ calls[c].result.tag = "ok"
        /\ Range(calls[c].result.value) =
             {r \in RecordsIn(calls[c].level) :
                \E k \in KeysOf(r) :
                  \/ includes(k, normalizeText(calls[c].arg))
                  \/ includes(normalizeText(calls[c].arg), k)}
        /\ NoDuplicates(calls[c].result.value)

\* C8 witness: a search has returned one record and left out another, and
\* the returned record is reached through several matching keys.
C8_Witness ==
    \E c \in Slots :
      /\ Returned(c, "search")
      /\ Len(calls[c].result.value) = 1
      /\ Len(seed[calls[c].level]) = 2
      /\ Cardinality({k \in KeysOf(calls[c].result.value[1]) :
                        \/ includes(k, normalizeText(calls[c].arg))
                        \/ includes(normalizeText(calls[c].arg), k)}) >= 2

\* C9: empty query returns everything: for a query that normalizes to the
\* empty string, the search returns every record of the level's dataset,
\* each exactly once.
C9_EmptyQueryReturnsAll ==
    \A c \in Slots :
      (Returned(c, "search") /\ normalizeText(calls[c].arg) = <<>>) =>
        /\ calls[c].result.tag = "ok"
        /\ Range(calls[c].result.value) = RecordsIn(calls[c].level)
        /\ Len(calls[c].result.value) = Len(seed[calls[c].level])

\* C9 witness: the search for a query of white space only has returned both
\* records of a dataset of two.
C9_Witness ==
    \E c \in Slots :
      /\ Returned(c, "search")
      /\ calls[c].arg = <<" ">>
      /\ Len(seed[calls[c].level]) = 2
      /\ Len(calls[c].result.value) = 2

(***************************************************************************)
(* SpecMemo: calls of the memoized functions over a fixed dataset.         *)
(***************************************************************************)
MemoArgsOf(f) ==
    CASE f = "getAllProvincesSorted" -> { <<>> }
      [] f = "searchProvinceByName" -> { << <<"A'", "B">> >>, << <<"b", " ", "a">> >> }
      [] f = "searchWardByName" -> { << <<"b", "a">> >> }

NextMemo ==
    \/ \E c \in Slots, f \in MemoFns : \E args \in MemoArgsOf(f) : MemoCall(c, f, args)
    \/ \E c \in Slots : ImportResolved(c)
    \/ \E c \in Slots : MemoResume(c)

SpecMemo == Init /\ [][NextMemo]_vars

(***************************************************************************)
(* Claims about memoize.                                                   *)
(***************************************************************************)
\* how often the wrapped function of f was called with the arguments args
InvocationsOf(f, args) ==
    Cardinality({i \in 1..Len(invocations) : invocations[i] = <<f, args>>})

\* C10: memoization computes once: in any sequence of calls of a memoized
\* function, also when an earlier call's promise for the same arguments is
\* still pending, the wrapped function is called at most once per argument
\* list, and a later call with equal arguments returns the stored result.
C10_MemoComputesOnce ==
    /\ \A f \in MemoFns : \A args \in MemoArgsOf(f) : InvocationsOf(f, args) <= 1
    /\ lastMemo.fn # "none" =>
         /\ InvocationsOf(lastMemo.fn, lastMemo.args) = 1
         /\ lastMemo.promise \in 1..Len(promises)
         /\ invocations[lastMemo.promise] = <<lastMemo.fn, lastMemo.args>>
         /\ MapHas(memoCache[lastMemo.fn], lastMemo.key)
         /\ memoCache[lastMemo.fn][MapIndex(memoCache[lastMemo.fn], lastMemo.key)].value
              = lastMemo.promise

\* C10 witness: a call of a memoized function has returned the stored
\* promise of an earlier call with the same arguments that is still pending.
C10_Witness ==
    /\ lastMemo.hit
    /\ lastMemo.fn = "searchProvinceByName"
    /\ promises[lastMemo.promise].state = "pending"
    /\ Len(invocations) >= 2

\* what the wrapped function of f returns for the arguments args once the
\* level it reads is loaded
freshResult(f, args) ==
    wrappedResult(f, accessorResult(memoOp(f), memoLevel(f), memoArg(f, args)))

\* the promise stored for the arguments args of f
storedPromise(f, args) ==
    memoCache[f][MapIndex(memoCache[f], stringify(args))].value

Max(a, b) == IF a > b THEN a ELSE b

RECURSIVE gcd(_, _)
gcd(a, b) == IF b = 0 THEN a ELSE gcd(b, a % b)

\* the number n / d for d > 0
Q(n, d) ==
    LET g == gcd(IF n < 0 THEN -n ELSE n, d)
    IN  <<n \div g, d \div g>>

QAdd(x, y) == Q(x[1] * y[2] + y[1] * x[2], x[2] * y[2])
QSub(x, y) == Q(x[1] * y[2] - y[1] * x[2], x[2] * y[2])
QMul(x, y) == Q(x[1] * y[1], x[2] * y[2])
QLeq(x, y) == x[1] * y[2] <= y[1] * x[2]
QLess(x, y) == x[1] * y[2] < y[1] * x[2]

\* options.<field> || byDefault, for a number
numberOr(options, field, byDefault) ==
    IF field \in DOMAIN options /\ options[field][1] # 0
    THEN options[field]
    ELSE byDefault

\* the matrix of levenshteinDistance, row j for str2 and column i for str1
levenshteinDistance(str1, str2) ==
    LET matrix[j \in 0..Len(str2), i \in 0..Len(str1)] ==
          IF j = 0 THEN i
          ELSE IF i = 0 THEN j
          ELSE LET indicator == IF str1[i] = str2[j] THEN 0 ELSE 1
               IN  Min(Min(matrix[j, i - 1] + 1, matrix[j - 1, i] + 1),
                       matrix[j - 1, i - 1] + indicator)
    IN  matrix[Len(str2), Len(str1)]

calculateSimilarity(str1, str2) ==
    IF str1 = str2 THEN Q(1, 1)
    ELSE LET maxLength == Max(Len(str1), Len(str2))
         IN  IF maxLength = 0 THEN Q(1, 1)
             ELSE QSub(Q(1, 1), Q(levenshteinDistance(str1, str2), maxLength))

\* the r-th smallest element of a set of numbers
nth(S, r) == CHOOSE x \in S : Cardinality({y \in S : y < x}) = r - 1

\* the loop "Find matches" from the position i of str1 on; m holds the
\* positions whose str1Matches and str2Matches flags are set
RECURSIVE findMatches(_, _, _, _, _)
findMatches(str1, str2, matchWindow, i, m) ==
    IF i > Len(str1) THEN m
    ELSE LET start == Max(1, i - matchWindow)
             end == Min(i + matchWindow, Len(str2))
             js == {j \in start..end : j \notin m.str2 /\ str1[i] = str2[j]}
         IN  IF js = {}
             THEN findMatches(str1, str2, matchWindow, i + 1, m)
             ELSE findMatches(str1, str2, matchWindow, i + 1,
                              [str1 |-> m.str1 \cup {i},
                               str2 |-> m.str2 \cup {nth(js, 1)}])

\* the loop "Find transpositions": the matched characters of str1 and of
\* str2, each in its string's order, that differ
transpositionsOf(str1, str2, m) ==
    Cardinality({r \in 1..Cardinality(m.str1) :
                   str1[nth(m.str1, r)] # str2[nth(m.str2, r)]})

\* the length of the common prefix, at most 4
RECURSIVE commonPrefix(_, _, _)
commonPrefix(str1, str2, i) ==
    IF i < Min(Min(Len(str1), Len(str2)), 4) /\ str1[i + 1] = str2[i + 1]
    THEN commonPrefix(str1, str2, i + 1)
    ELSE i

jaroWinklerSimilarity(str1, str2) ==
    IF str1 = str2 THEN Q(1, 1)
    ELSE IF Len(str1) = 0 \/ Len(str2) = 0 THEN Q(0, 1)
    ELSE LET len1 == Len(str1)
             len2 == Len(str2)
             matchWindow == (Max(len1, len2) \div 2) - 1
         IN  IF matchWindow < 0 THEN Q(0, 1)
             ELSE LET m == findMatches(str1, str2, matchWindow, 1,
                                       [str1 |-> {}, str2 |-> {}])
                      matches == Cardinality(m.str1)
                      transpositions == transpositionsOf(str1, str2, m)
                  IN  IF matches = 0 THEN Q(0, 1)
                      ELSE LET jaro ==
                                 QMul(QAdd(QAdd(Q(matches, len1), Q(matches, len2)),
                                           Q(2 * matches - transpositions,
                                             2 * matches)),
                                      Q(1, 3))
                               prefix == commonPrefix(str1, str2, 0)
                           IN  QAdd(jaro, QMul(Q(prefix, 10), QSub(Q(1, 1), jaro)))

\* String.prototype.startsWith
startsWith(s, t) == Len(t) <= Len(s) /\ SubSeq(s, 1, Len(t)) = t

\* mutant: a query word matches only a target word that starts with it
wordMatchesOneWay(queryWords, targetWords) ==
    Cardinality({i \in 1..Len(queryWords) :
                   \E j \in 1..Len(targetWords) :
                     startsWith(targetWords[j], queryWords[i])})

\* the count of the loop over queryWords: the query words for which the
\* inner loop finds a target word
wordMatches(queryWords, targetWords) ==
    Cardinality({i \in 1..Len(queryWords) :
                   \E j \in 1..Len(targetWords) :
                     \/ startsWith(targetWords[j], queryWords[i])
                     \/ startsWith(queryWords[i], targetWords[j])})

fuzzyMatch(query, target, options) ==
    LET caseSensitive == "caseSensitive" \in DOMAIN options /\ options.caseSensitive
        normalizedQuery == IF caseSensitive THEN query ELSE normalizeText(query)
        normalizedTarget == IF caseSensitive THEN target ELSE normalizeText(target)
    IN  IF normalizedQuery = normalizedTarget
        THEN [score |-> QAdd(Q(1, 1), numberOr(options, "exactMatchBonus", Q(0, 1))),
              type |-> "exact"]
        ELSE IF startsWith(normalizedTarget, normalizedQuery)
        THEN [score |-> QAdd(Q(9, 10), numberOr(options, "prefixMatchBonus", Q(0, 1))),
              type |-> "prefix"]
        ELSE LET targetWords == splitWs(normalizedTarget)
                 queryWords == splitWs(normalizedQuery)
                 matched == wordMatches(queryWords, targetWords)
             IN  IF matched > 0
                 THEN [score |->
                         QAdd(QMul(Q(matched, Max(Len(queryWords), Len(targetWords))),
                                   Q(8, 10)),
                              numberOr(options, "wordMatchBonus", Q(0, 1))),
                       type |-> "word"]
                 ELSE [score |->
                         QAdd(QMul(calculateSimilarity(normalizedQuery, normalizedTarget),
                                   Q(6, 10)),
                              QMul(jaroWinklerSimilarity(normalizedQuery, normalizedTarget),
                                   Q(4, 10))),
                       type |-> "fuzzy"]

\* options.maxResults || byDefault
maxResultsOr(options, byDefault) ==
    IF "maxResults" \in DOMAIN options /\ options.maxResults # 0
    THEN options.maxResults
    ELSE byDefault

\* mutant: the comparator is a.score - b.score
byScoreAscending(a, b) == QLess(a.score, b.score)

\* (a, b) => b.score - a.score
byScore(a, b) == QLess(b.score, a.score)

\* the collation of localeCompare(..., 'vi') for the characters of the model:
\* the base letters decide, then the accents, then the case
collationKeys(name) ==
    LET base(ch) == charCode(RemoveAccentChar(LowerChar(ch)))
        accent(ch) == IF RemoveAccentChar(ch) = ch THEN 0 ELSE 1
        upper(ch) == IF LowerChar(ch) = ch THEN 0 ELSE 1
    IN  [i \in 1..Len(name) |-> base(name[i])]
          \o <<-1>> \o [i \in 1..Len(name) |-> accent(name[i])]
          \o <<-1>> \o [i \in 1..Len(name) |-> upper(name[i])]

RECURSIVE lexLess(_, _)
lexLess(a, b) ==
    IF b = <<>> THEN FALSE
    ELSE IF a = <<>> THEN TRUE
    ELSE IF Head(a) # Head(b) THEN Head(a) < Head(b)
    ELSE lexLess(Tail(a), Tail(b))

\* (a, b) => a.item.name.localeCompare(b.item.name, 'vi')
byName(a, b) == lexLess(collationKeys(a.item.name), collationKeys(b.item.name))

\* mutant: the ranks of the types are reversed
typeOrderReversed(type) ==
    CASE type = "province" -> 1
      [] type = "district" -> 2
      [] type = "commune" -> 3

\* const typeOrder = { province: 3, district: 2, commune: 1 }
typeOrder(type) ==
    CASE type = "province" -> 3
      [] type = "district" -> 2
      [] type = "commune" -> 1

\* the comparator of sortBy 'relevance'
byRelevance(a, b) ==
    IF a.score # b.score
    THEN QLess(b.score, a.score)
    ELSE typeOrder(b.type) < typeOrder(a.type)

\* (a, b) => b.similarity - a.similarity
bySimilarity(a, b) == QLess(b.similarity, a.similarity)

\* (a, b) => b.score - a.score, on the integer scores of autocomplete
byPoints(a, b) == a.score > b.score

\* the comparator a sort is called with puts a before b
comesBefore(order, a, b) ==
    CASE order = "score" -> byScore(a, b)
      [] order = "points" -> byPoints(a, b)
      [] order = "name" -> byName(a, b)
      [] order = "relevance" -> byRelevance(a, b)
      [] order = "similarity" -> bySimilarity(a, b)

\* Array.prototype.sort with the comparator named by order: a stable sort
\* of the list, which is evaluated once
stableSort(items, order) ==
    LET sortedOf(list) ==
          LET n == Len(list)
              pos(i) == 1 + Cardinality({j \in 1..n :
                                           \/ comesBefore(order, list[j], list[i])
                                           \/ /\ ~comesBefore(order, list[i], list[j])
                                              /\ j < i})
          IN  [p \in 1..n |-> list[CHOOSE i \in 1..n : pos(i) = p]]
    IN  CHOOSE sorted \in {sortedOf(list) : list \in {items}} : TRUE

\* Array.prototype.slice(0, end)
slice0(items, end) ==
    IF end >= 0
    THEN SubSeq(items, 1, Min(end, Len(items)))
    ELSE SubSeq(items, 1, Max(0, Len(items) + end))

\* the loop of a level search: the results pushed for the records whose
\* score reaches the threshold, in dataset order
RECURSIVE pushMatches(_, _, _, _)
pushMatches(records, query, options, threshold) ==
    IF records = <<>> THEN <<>>
    ELSE LET nameMatch == fuzzyMatch(query, Head(records).name, options)
             rest == pushMatches(Tail(records), query, options, threshold)
         IN  IF QLeq(threshold, nameMatch.score)
             THEN <<[item |-> Head(records), score |-> nameMatch.score,
                     type |-> nameMatch.type]>> \o rest
             ELSE rest

DefaultThreshold == Q(3, 10)
DefaultMaxResults == 50
DefaultMaxCommunes == 100

FuzzyLevels == {"province", "district", "commune"}

defaultMaxResultsOf(l) ==
    IF l = "commune" THEN DefaultMaxCommunes ELSE DefaultMaxResults

\* fuzzySearchProvinces / fuzzySearchDistricts / fuzzySearchCommunes over the
\* list get<Level>Data returns
fuzzySearch(records, l, query, options) ==
    LET threshold == numberOr(options, "threshold", DefaultThreshold)
        maxResults == maxResultsOr(options, defaultMaxResultsOf(l))
    IN  slice0(stableSort(pushMatches(records, query, options, threshold), "score"),
               maxResults)

\* options.filters?.<field>, a string: set, and not the empty string
hasFilter(options, field) ==
    /\ "filters" \in DOMAIN options
    /\ field \in DOMAIN options.filters
    /\ options.filters[field] # ""

\* mutant: filters.type is not looked at
keptWhateverTheType(results, options, l) == results

\* the switch over options.filters.type: the list of the level l is emptied
\* when the type names another level
keptByType(results, options, l) ==
    IF /\ hasFilter(options, "type")
       /\ options.filters.type \in FuzzyLevels
       /\ options.filters.type # l
    THEN <<>>
    ELSE results

\* ...results.map(r => ({ ...r, type }))
tagged(results, l) ==
    [i \in 1..Len(results) |->
       [item |-> results[i].item, score |-> results[i].score, type |-> l]]

\* universalFuzzySearch from the filters on, for the lists the three level
\* searches returned
filterAndCombine(provinces, districts, communes, options) ==
    LET districtsOfProvince ==
          IF hasFilter(options, "provinceId")
          THEN SelectSeq(districts,
                         LAMBDA r : r.item.idProvince = options.filters.provinceId)
          ELSE districts
        validDistrictIds ==
          {districtsOfProvince[i].item.idDistrict : i \in 1..Len(districtsOfProvince)}
        communesOfProvince ==
          IF hasFilter(options, "provinceId")
          THEN SelectSeq(communes, LAMBDA r : r.item.idDistrict \in validDistrictIds)
          ELSE communes
        communesOfDistrict ==
          IF hasFilter(options, "districtId")
          THEN SelectSeq(communes,
                         LAMBDA r : r.item.idDistrict = options.filters.districtId)
          ELSE communesOfProvince
        filteredProvinces == keptByType(provinces, options, "province")
        filteredDistricts == keptByType(districtsOfProvince, options, "district")
        filteredCommunes == keptByType(communesOfDistrict, options, "commune")
        combined == tagged(filteredProvinces, "province")
                      \o tagged(filteredDistricts, "district")
                      \o tagged(filteredCommunes, "commune")
        sortBy == IF "sortBy" \in DOMAIN options THEN options.sortBy ELSE "absent"
        sorted == IF sortBy = "name" THEN stableSort(combined, "name")
                  ELSE IF sortBy = "relevance" THEN stableSort(combined, "relevance")
                  ELSE stableSort(combined, "score")
    IN  [provinces |-> filteredProvinces,
         districts |-> filteredDistricts,
         communes |-> filteredCommunes,
         combined |-> slice0(sorted, maxResultsOr(options, DefaultMaxResults))]

\* const [provinces, districts, communes] = await Promise.all([...]), then
\* the filters, the combination and the sort
universalFuzzySearch(d, query, options) ==
    CHOOSE result \in
      { filterAndCombine(provinces, districts, communes, options) :
          provinces \in {fuzzySearch(d["province"], "province", query, options)},
          districts \in {fuzzySearch(d["district"], "district", query, options)},
          communes \in {fuzzySearch(d["commune"], "commune", query, options)} } : TRUE

\* mutant: a record is also pushed when its normalized name is the
\* normalized name asked for
similarOrSame(name, normalizedName) == TRUE

\* normalizeText(item.name) !== normalizedName
otherName(name, normalizedName) == normalizeText(name) # normalizedName

RECURSIVE pushSimilar(_, _, _)
pushSimilar(records, normalizedName, threshold) ==
    IF records = <<>> THEN <<>>
    ELSE LET similarity == jaroWinklerSimilarity(normalizedName,
                                                 normalizeText(Head(records).name))
             rest == pushSimilar(Tail(records), normalizedName, threshold)
         IN  IF /\ QLeq(threshold, similarity)
                /\ otherName(Head(records).name, normalizedName)
             THEN <<[item |-> Head(records), similarity |-> similarity]>> \o rest
             ELSE rest

DefaultSimilarity == Q(8, 10)

\* findSimilarNames over the list get<Level>Data returns; the threshold is
\* the default when the caller passes none
findSimilarNames(records, name, threshold) ==
    stableSort(pushSimilar(records, normalizeText(name), threshold),
               "similarity")

(***************************************************************************)
(* SpecFuzzy: one call of fuzzyMatch, of a level search or of               *)
(* findSimilarNames over every small dataset.  fuzzyIn.data holds, per      *)
(* level, the list get<Level>Data returns to the function.                  *)
(***************************************************************************)
District(id, provinceId, name) ==
    [idDistrict |-> id, idProvince |-> provinceId, name |-> name]
Commune(id, districtId, name) ==
    [idCommune |-> id, idDistrict |-> districtId, name |-> name]

DistrictIds == <<"001", "002", "003", "004">>
CommuneIds == <<"00001", "00002", "00003", "00004">>

FuzzyNames ==
    { <<"A'", "b">>, <<"a", "a", "b">>, <<"b", " ", "a", "b">>, <<"b", "a">> }

FuzzyQueries ==
    { <<>>, <<"b">>, <<" ", "A'", "B">>, <<"b", "a">>, <<"b", "x", " ", "a">> }

\* the datasets of the three levels whose i-th records have the i-th name:
\* the i-th commune lies in the i-th district, which lies in the i-th province
FuzzyDataOf(names) ==
    [province |-> [i \in 1..Len(names) |-> Province(ProvinceIds[i], names[i])],
     district |-> [i \in 1..Len(names) |->
                     District(DistrictIds[i], ProvinceIds[i], names[i])],
     commune |-> [i \in 1..Len(names) |->
                    Commune(CommuneIds[i], DistrictIds[i], names[i])]]

\* the options objects with the property field, one per value, and without
With(field, values) == {<<>>} \cup {(field :> v) : v \in values}

\* the options of the calls: the thresholds and result limits, and the
\* properties fuzzyMatch reads
FuzzyOptions ==
    { t @@ k : t \in With("threshold", {Q(0, 1), Q(1, 5), Q(9, 10)}),
               k \in With("maxResults", {0, 1, 2}) }
    \cup { [caseSensitive |-> TRUE],
           [caseSensitive |-> FALSE, exactMatchBonus |-> Q(1, 10),
            prefixMatchBonus |-> Q(1, 20), wordMatchBonus |-> Q(1, 10)] }

FuzzyArgs(d, query, options) ==
    [fn |-> "call", data |-> d, query |-> query, options |-> options]

InitFuzzy ==
    /\ seed = DefaultSeed
    /\ calls = [c \in 1..1 |-> IdleCall]
    /\ InitCache
    /\ InitMemo
    /\ InitNoTask
    /\ fuzzyOut = NoFuzzyCall
    /\ \E n \in 0..MaxRecords : \E names \in [1..n -> FuzzyNames] :
         \E query \in FuzzyQueries, options \in FuzzyOptions :
           fuzzyIn = FuzzyArgs(FuzzyDataOf(names), query, options)

\* a function of features/fuzzy is called with the arguments fuzzyIn and
\* returns value
Returns(fn, l, target, value) ==
    /\ fuzzyIn.fn = "call"
    /\ fuzzyOut.fn = "none"
    /\ fuzzyOut' = [fn |-> fn, level |-> l, target |-> target, value |-> value]
    /\ UNCHANGED <<task, seed, cacheVars, calls, loads, firstCall, memoVars, fuzzyIn>>

\* fuzzyMatch(query, record.name, options), as the loop of a level search
\* calls it for the i-th record
FuzzyMatchName(l, i) ==
    /\ fuzzyIn.fn = "call"
    /\ i \in 1..Len(fuzzyIn.data[l])
    /\ Returns("fuzzyMatch", l, fuzzyIn.data[l][i].name,
               fuzzyMatch(fuzzyIn.query, fuzzyIn.data[l][i].name, fuzzyIn.options))

FuzzySearch(l) ==
    /\ fuzzyIn.fn = "call"
    /\ Returns("fuzzySearch", l, <<>>,
               fuzzySearch(fuzzyIn.data[l], l, fuzzyIn.query, fuzzyIn.options))

\* the threshold argument of findSimilarNames: the default when not passed
similarityThreshold(options) ==
    IF "threshold" \in DOMAIN options THEN options.threshold ELSE DefaultSimilarity

FindSimilarNames(l) ==
    /\ fuzzyIn.fn = "call"
    /\ Returns("findSimilarNames", l, <<>>,
               findSimilarNames(fuzzyIn.data[l], fuzzyIn.query,
                                similarityThreshold(fuzzyIn.options)))

NextFuzzy ==
    \/ \E l \in FuzzyLevels : \E i \in 1..MaxRecords : FuzzyMatchName(l, i)
    \/ \E l \in FuzzyLevels : FuzzySearch(l)
    \/ \E l \in FuzzyLevels : FindSimilarNames(l)

SpecFuzzy == InitFuzzy /\ [][NextFuzzy]_vars

(***************************************************************************)
(* Claims about fuzzyMatch and the level searches.                         *)
(***************************************************************************)
\* the property field of the options of the call, or zero
bonusOf(field) ==
    IF field \in DOMAIN fuzzyIn.options THEN fuzzyIn.options[field] ELSE Q(0, 1)

\* the query words that are a prefix of, or have as a prefix, a target word
matchingWords(q, t) ==
    {i \in 1..Len(splitWs(q)) :
       \E w \in Range(splitWs(t)) :
         startsWith(w, splitWs(q)[i]) \/ startsWith(splitWs(q)[i], w)}

\* r is the result of the first applicable rule, in the order exact, prefix,
\* word, fuzzy, for the compared strings q and t
FirstApplicableRule(q, t, r) ==
    LET m == Cardinality(matchingWords(q, t))
        words == Max(Len(splitWs(q)), Len(splitWs(t)))
    IN  /\ r.type \in {"exact", "prefix", "word", "fuzzy"}
        /\ r.type = "exact" <=> q = t
        /\ r.type = "prefix" <=> q # t /\ startsWith(t, q)
        /\ r.type = "word" <=> q # t /\ ~startsWith(t, q) /\ m > 0
        /\ r.type = "exact" => r.score = QAdd(Q(1, 1), bonusOf("exactMatchBonus"))
        /\ r.type = "prefix" => r.score = QAdd(Q(9, 10), bonusOf("prefixMatchBonus"))
        /\ r.type = "word" =>
             r.score = QAdd(QMul(Q(m, words), Q(8, 10)), bonusOf("wordMatchBonus"))

\* fuzzyMatch(n, n, {}) has the type 'exact' and a score of at least 1.0
SameNameIsExact ==
    fuzzyIn.options = <<>> /\ fuzzyIn.query = fuzzyOut.target =>
      fuzzyOut.value.type = "exact" /\ QLeq(Q(1, 1), fuzzyOut.value.score)

\* C12 as stated: fuzzyMatch applies the first applicable rule in the order
\* exact, prefix, word, fuzzy to the normalized query and the normalized
\* target, with the scores 1 + exactMatchBonus, 0.9 + prefixMatchBonus and
\* (m / max(query words, target words)) * 0.8 + wordMatchBonus, for every
\* options object.
C12_RulesOnNormalizedStrings ==
    fuzzyOut.fn = "fuzzyMatch" =>
      /\ FirstApplicableRule(normalizeText(fuzzyIn.query),
                             normalizeText(fuzzyOut.target), fuzzyOut.value)
      /\ SameNameIsExact

\* C12 amended: the rules are applied to the normalized strings when
\* options.caseSensitive is not set, and to the query and the target as
\* passed when it is set.
C12_RulesOnComparedStrings ==
    fuzzyOut.fn = "fuzzyMatch" =>
      /\ IF "caseSensitive" \in DOMAIN fuzzyIn.options /\ fuzzyIn.options.caseSensitive
         THEN FirstApplicableRule(fuzzyIn.query, fuzzyOut.target, fuzzyOut.value)
         ELSE FirstApplicableRule(normalizeText(fuzzyIn.query),
                                  normalizeText(fuzzyOut.target), fuzzyOut.value)
      /\ SameNameIsExact

\* C12 witness: with caseSensitive set, a query and a target that differ as
\* passed and are equal when normalized are matched by the word rule.
C12_Witness ==
    /\ fuzzyOut.fn = "fuzzyMatch"
    /\ "caseSensitive" \in DOMAIN fuzzyIn.options
    /\ fuzzyIn.options.caseSensitive
    /\ normalizeText(fuzzyIn.query) = normalizeText(fuzzyOut.target)
    /\ fuzzyOut.value.type = "word"

\* the thresholds a caller passes
PassedThresholds ==
    {o.threshold : o \in {o \in FuzzyOptions : "threshold" \in DOMAIN o}}

\* the options of the call with the threshold t instead
withThreshold(t) == ("threshold" :> t) @@ fuzzyIn.options

\* C13: threshold monotonicity: for every pair of thresholds t1 <= t2 with
\* t1 >= 0 and every query, a level search with the threshold t2 returns at
\* most as many results as the same search with the threshold t1.
C13_ThresholdMonotone ==
    fuzzyOut.fn = "fuzzySearch" /\ "threshold" \in DOMAIN fuzzyIn.options =>
      \A t1 \in PassedThresholds :
        QLeq(Q(0, 1), t1) /\ QLeq(t1, fuzzyIn.options.threshold) =>
          Len(fuzzyOut.value)
            <= Len(fuzzySearch(fuzzyIn.data[fuzzyOut.level], fuzzyOut.level,
                               fuzzyIn.query, withThreshold(t1)))

(***************************************************************************)
(* SpecUniversal: one call of universalFuzzySearch, or of a level search,   *)
(* with every combination of filters, sort order and result limit.         *)
(***************************************************************************)
UniversalNames == { <<"A'", "b">>, <<"b", "a">>, <<"b", " ", "a", "b">> }

UniversalQueries == { <<"b">>, <<"b", "a">> }

\* the filters objects: a province, a district inside or outside of it, a type
FilterPool ==
    { p @@ d @@ t : p \in With("provinceId", {"01"}),
                    d \in With("districtId", {"001", "002"}),
                    t \in With("type", FuzzyLevels) }

UniversalOptions ==
    { (IF f = <<>> THEN <<>> ELSE ("filters" :> f)) @@ o @@ k :
        f \in FilterPool,
        o \in With("sortBy", {"score", "name", "relevance"}),
        k \in With("maxResults", {0, 1, 2}) }

InitUniversal ==
    /\ seed = DefaultSeed
    /\ calls = [c \in 1..1 |-> IdleCall]
    /\ InitCache
    /\ InitMemo
    /\ InitNoTask
    /\ fuzzyOut = NoFuzzyCall
    /\ \E names \in [1..2 -> UniversalNames] :
         \E query \in UniversalQueries, options \in UniversalOptions :
           fuzzyIn = FuzzyArgs(FuzzyDataOf(names), query, options)

UniversalFuzzySearch ==
    /\ fuzzyIn.fn = "call"
    /\ Returns("universalFuzzySearch", "all", <<>>,
               universalFuzzySearch(fuzzyIn.data, fuzzyIn.query, fuzzyIn.options))

NextUniversal ==
    \/ UniversalFuzzySearch
    \/ \E l \in FuzzyLevels : FuzzySearch(l)

SpecUniversal == InitUniversal /\ [][NextUniversal]_vars

(***************************************************************************)
(* Claims about the result limit, the filters and the combined order.      *)
(***************************************************************************)
\* C14: maxResults bound: for every query and every value k passed as
\* options.maxResults, a level search returns at most k results and
\* universalFuzzySearch returns a combined list of at most k items.
C14_MaxResultsBound ==
    "maxResults" \in DOMAIN fuzzyIn.options =>
      /\ fuzzyOut.fn = "fuzzySearch" =>
           Len(fuzzyOut.value) <= fuzzyIn.options.maxResults
      /\ fuzzyOut.fn = "universalFuzzySearch" =>
           Len(fuzzyOut.value.combined) <= fuzzyIn.options.maxResults

\* the list universalFuzzySearch returned for the level l
listOf(l) ==
    CASE l = "province" -> fuzzyOut.value.provinces
      [] l = "district" -> fuzzyOut.value.districts
      [] l = "commune" -> fuzzyOut.value.communes

\* C16: type filter: universalFuzzySearch with filters.type = T returns an
\* empty list for every level other than T and a combined list that holds
\* only items of the type T, whatever the other filters are.
C16_TypeFilter ==
    fuzzyOut.fn = "universalFuzzySearch" /\ hasFilter(fuzzyIn.options, "type") =>
      /\ \A l \in FuzzyLevels \ {fuzzyIn.options.filters.type} : listOf(l) = <<>>
      /\ \A i \in 1..Len(fuzzyOut.value.combined) :
           fuzzyOut.value.combined[i].type = fuzzyIn.options.filters.type

\* C16 witness: the type 'commune' is asked for together with a province and
\* a district outside of that province, and communes are returned.
C16_Witness ==
    /\ fuzzyOut.fn = "universalFuzzySearch"
    /\ hasFilter(fuzzyIn.options, "type")
    /\ fuzzyIn.options.filters.type = "commune"
    /\ hasFilter(fuzzyIn.options, "provinceId")
    /\ hasFilter(fuzzyIn.options, "districtId")
    /\ fuzzyIn.options.filters.districtId = "002"
    /\ fuzzyOut.value.combined # <<>>
    /\ \E l \in FuzzyLevels :
         Len(fuzzySearch(fuzzyIn.data[l], l, fuzzyIn.query, fuzzyIn.options)) > 0
           /\ listOf(l) = <<>>

\* the province of the district with the ID id, in the dataset of the call
provinceOfDistrict(id) ==
    {fuzzyIn.data["district"][i].idProvince :
       i \in {i \in 1..Len(fuzzyIn.data["district"]) :
                fuzzyIn.data["district"][i].idDistrict = id}}

\* C17: parent-ID filter soundness: with filters.provinceId = p and every
\* combination of the other filters, every item of the district list has
\* idProvince = p and every item of the commune list lies in a district whose
\* idProvince is p.
C17_ProvinceFilterSound ==
    fuzzyOut.fn = "universalFuzzySearch" /\ hasFilter(fuzzyIn.options, "provinceId") =>
      /\ \A i \in 1..Len(fuzzyOut.value.districts) :
           fuzzyOut.value.districts[i].item.idProvince
             = fuzzyIn.options.filters.provinceId
      /\ \A i \in 1..Len(fuzzyOut.value.communes) :
           provinceOfDistrict(fuzzyOut.value.communes[i].item.idDistrict)
             = {fuzzyIn.options.filters.provinceId}

\* a is not after b in the order of sortBy
inOrder(sortBy, a, b) ==
    /\ QLeq(b.score, a.score)
    /\ sortBy = "relevance" /\ a.score = b.score =>
         a.type = "province" \/ b.type = "commune" \/ a.type = b.type

\* the items of the three returned lists, with their types
returnedItems ==
    UNION {Range(tagged(listOf(l), l)) : l \in FuzzyLevels}

\* C18: combined ordering: with sortBy 'relevance' the combined list is in
\* non-increasing score order with ties broken province before district
\* before commune; with sortBy absent or 'score' it is in non-increasing score
\* order; the truncation to maxResults keeps a prefix of that order.
C18_CombinedOrdering ==
    fuzzyOut.fn = "universalFuzzySearch" =>
      LET sortBy == IF "sortBy" \in DOMAIN fuzzyIn.options
                    THEN fuzzyIn.options.sortBy ELSE "score"
          combined == fuzzyOut.value.combined
      IN  sortBy \in {"score", "relevance"} =>
            /\ \A i \in 1..Len(combined), j \in 1..Len(combined) :
                 i < j => inOrder(sortBy, combined[i], combined[j])
            /\ Range(combined) \subseteq returnedItems
            /\ \A omitted \in returnedItems \ Range(combined) :
                 \A i \in 1..Len(combined) : inOrder(sortBy, combined[i], omitted)

\* C18 witness: sorted by relevance, the combined list holds a province, a
\* district and a commune of one score in that order and was cut to two
\* items with lower and equal scores left out.
C18_Witness ==
    /\ fuzzyOut.fn = "universalFuzzySearch"
    /\ "sortBy" \in DOMAIN fuzzyIn.options
    /\ fuzzyIn.options.sortBy = "relevance"
    /\ Len(fuzzyOut.value.combined) = 2
    /\ fuzzyOut.value.combined[1].type = "province"
    /\ fuzzyOut.value.combined[2].type = "district"
    /\ fuzzyOut.value.combined[1].score = fuzzyOut.value.combined[2].score
    /\ \E omitted \in returnedItems \ Range(fuzzyOut.value.combined) :
         omitted.score = fuzzyOut.value.combined[2].score

(***************************************************************************)
(* Claims about the ranking of a level search and about findSimilarNames.  *)
(***************************************************************************)
\* the score of a record of the dataset for the query and options of the call
scoreOf(record) == fuzzyMatch(fuzzyIn.query, record.name, fuzzyIn.options).score

\* the records of the level that the level search returned
returnedRecords == {fuzzyOut.value[i].item : i \in 1..Len(fuzzyOut.value)}

\* C15: ranked top-k: for a threshold t > 0 and maxResults k >= 1 a level
\* search returns records whose score is at least t, in non-increasing score
\* order, cut to the first k: a record with a score of at least t is left out
\* only when k items are returned, and no record left out has a strictly
\* higher score than a returned one.
C15_RankedTopK ==
    /\ fuzzyOut.fn = "fuzzySearch"
    /\ "threshold" \in DOMAIN fuzzyIn.options
    /\ QLess(Q(0, 1), fuzzyIn.options.threshold)
    /\ "maxResults" \in DOMAIN fuzzyIn.options
    /\ fuzzyIn.options.maxResults >= 1
    => LET t == fuzzyIn.options.threshold
           k == fuzzyIn.options.maxResults
           records == Range(fuzzyIn.data[fuzzyOut.level])
           omitted == {r \in records \ returnedRecords : QLeq(t, scoreOf(r))}
       IN  /\ Len(fuzzyOut.value) <= k
           /\ Cardinality(returnedRecords) = Len(fuzzyOut.value)
           /\ \A i \in 1..Len(fuzzyOut.value) :
                /\ fuzzyOut.value[i].item \in records
                /\ fuzzyOut.value[i].score = scoreOf(fuzzyOut.value[i].item)
                /\ QLeq(t, fuzzyOut.value[i].score)
                /\ i > 1 => QLeq(fuzzyOut.value[i].score, fuzzyOut.value[i - 1].score)
           /\ omitted # {} => Len(fuzzyOut.value) = k
           /\ \A r \in omitted : \A i \in 1..Len(fuzzyOut.value) :
                QLeq(scoreOf(r), fuzzyOut.value[i].score)

\* C15 witness: cut to one result, the search returns the second record of
\* the dataset and leaves out the first, whose score also reaches the
\* threshold and is lower.
C15_Witness ==
    /\ fuzzyOut.fn = "fuzzySearch"
    /\ "threshold" \in DOMAIN fuzzyIn.options
    /\ QLess(Q(0, 1), fuzzyIn.options.threshold)
    /\ "maxResults" \in DOMAIN fuzzyIn.options
    /\ fuzzyIn.options.maxResults = 1
    /\ Len(fuzzyIn.data[fuzzyOut.level]) >= 2
    /\ Len(fuzzyOut.value) = 1
    /\ fuzzyOut.value[1].item = fuzzyIn.data[fuzzyOut.level][2]
    /\ QLeq(fuzzyIn.options.threshold, scoreOf(fuzzyIn.data[fuzzyOut.level][1]))
    /\ QLess(scoreOf(fuzzyIn.data[fuzzyOut.level][1]), fuzzyOut.value[1].score)

\* the similarity findSimilarNames compares with its threshold
similarityOf(record) ==
    jaroWinklerSimilarity(normalizeText(fuzzyIn.query), normalizeText(record.name))

\* C19: findSimilarNames(name, level, threshold) returns exactly the records
\* of the level whose Jaro-Winkler similarity to the normalized name is at
\* least the threshold and whose normalized name differs from it, in
\* non-increasing similarity order; a record whose normalized name equals
\* the normalized name is never returned.
C19_SimilarNames ==
    fuzzyOut.fn = "findSimilarNames" =>
      LET t == similarityThreshold(fuzzyIn.options)
          records == Range(fuzzyIn.data[fuzzyOut.level])
          n == normalizeText(fuzzyIn.query)
      IN  /\ returnedRecords =
               {r \in records : QLeq(t, similarityOf(r)) /\ normalizeText(r.name) # n}
          /\ Cardinality(returnedRecords) = Len(fuzzyOut.value)
          /\ \A i \in 1..Len(fuzzyOut.value) :
               /\ fuzzyOut.value[i].similarity = similarityOf(fuzzyOut.value[i].item)
               /\ normalizeText(fuzzyOut.value[i].item.name) # n
               /\ i > 1 => QLeq(fuzzyOut.value[i].similarity,
                                fuzzyOut.value[i - 1].similarity)

\* C19 witness: the dataset holds a record whose normalized name is the
\* normalized name asked for, which is left out, and another record, whose
\* similarity reaches the threshold and which is returned.
C19_Witness ==
    /\ fuzzyOut.fn = "findSimilarNames"
    /\ \E r \in Range(fuzzyIn.data[fuzzyOut.level]) \ returnedRecords :
         /\ normalizeText(r.name) = normalizeText(fuzzyIn.query)
         /\ r.name # fuzzyIn.query
    /\ Len(fuzzyOut.value) = 1
    /\ QLess(Q(0, 1), similarityThreshold(fuzzyIn.options))
    /\ QLess(fuzzyOut.value[1].similarity, Q(1, 1))

(***************************************************************************)
(* SpecNormalize: normalizeText applied to every short text, and applied   *)
(* again to what it returned.                                              *)
(***************************************************************************)
Chars == {" ", "A", "a", "A'", "a'", "b"}

Texts == UNION {[1..n -> Chars] : n \in 0..MaxTextLen}

InitNormalize ==
    /\ seed = DefaultSeed
    /\ calls = [c \in 1..1 |-> IdleCall]
    /\ InitCache
    /\ InitMemo
    /\ InitNoTask
    /\ fuzzyOut = NoFuzzyCall
    /\ \E text \in Texts : fuzzyIn = [fn |-> "text", text |-> text]

\* normalizeText(text) for the text of the caller
Normalize ==
    /\ fuzzyIn.fn = "text"
    /\ fuzzyOut.fn = "none"
    /\ fuzzyOut' = [fn |-> "normalizeText", text |-> fuzzyIn.text, times |-> 1,
                    value |-> normalizeText(fuzzyIn.text)]
    /\ UNCHANGED <<task, seed, cacheVars, calls, loads, firstCall, memoVars, fuzzyIn>>

\* normalizeText(x) for the x an earlier call of normalizeText returned
NormalizeAgain ==
    /\ fuzzyOut.fn = "normalizeText"
    /\ fuzzyOut.times = 1
    /\ fuzzyOut' = [fn |-> "normalizeText", text |-> fuzzyOut.value, times |-> 2,
                    value |-> normalizeText(fuzzyOut.value)]
    /\ UNCHANGED <<task, seed, cacheVars, calls, loads, firstCall, memoVars, fuzzyIn>>

NextNormalize == Normalize \/ NormalizeAgain

SpecNormalize == InitNormalize /\ [][NextNormalize]_vars

\* C20: normalizeText is total and idempotent: for every string, the empty
\* string included, it returns a string, normalizing what it returned changes
\* nothing, and the empty string is normalized to the empty string.
C20_NormalizeIdempotent ==
    fuzzyOut.fn = "normalizeText" =>
      /\ DOMAIN fuzzyOut.value = 1..Len(fuzzyOut.value)
      /\ Range(fuzzyOut.value) \subseteq Chars
      /\ fuzzyOut.times = 2 => fuzzyOut.value = fuzzyOut.text
      /\ fuzzyOut.text = <<>> => fuzzyOut.value = <<>>

\* C20 witness: a text with white space at both ends, a capital and two
\* accents was normalized, and the result was normalized again.
C20_Witness ==
    /\ fuzzyOut.fn = "normalizeText"
    /\ fuzzyOut.times = 2
    /\ fuzzyIn.text = <<"A'", "a'", " ">>
    /\ fuzzyOut.value = <<"a", "a">>

(***************************************************************************)
(* Batch lookups.  get<Level>sBatch(ids) calls get<Level>ById for every    *)
(* item of ids in one synchronous run of ids.map, awaits                   *)
(* Promise.allSettled of the promises, and sorts the outcomes into success *)
(* and failed.  The calls of the batch take the slots 1..ids.length.       *)
(***************************************************************************)
\* mutant: only the test result.status === 'fulfilled'
settledWithAnything(result) == result.tag = "ok"

\* result.status === 'fulfilled' && result.value
settledWithValue(result) == result.tag = "ok" /\ result.value # Undefined

\* results.forEach((result, index) => { ... success.push(result.value) ...
\* failed.push(ids[index]) ... })
RECURSIVE forEachSettled(_, _, _, _)
forEachSettled(results, ids, index, acc) ==
    IF index > Len(results) THEN acc
    ELSE forEachSettled(results, ids, index + 1,
           IF settledWithValue(results[index])
           THEN [acc EXCEPT !.success = Append(@, results[index].value)]
           ELSE [acc EXCEPT !.failed = Append(@, ids[index])])

\* the value get<Level>sBatch returns: { success, failed }
batchResult(results, ids) ==
    forEachSettled(results, ids, 1, [success |-> <<>>, failed |-> <<>>])

\* a call of get<Level>ById(id), up to its first await
GetByIdCall(l, id) ==
    [pc |-> IF loadReturnsEarly(l) THEN "await" ELSE "import",
     op |-> "getById", level |-> l, arg |-> id, result |-> NoResult,
     startedLoaded |-> loaded[l], promise |-> 0]

\* no call is in flight
Quiescent == \A c \in Slots : calls[c].pc \in {"idle", "done"}

\* get<Level>sBatch(ids) is called: ids.map(id => get<Level>ById(id)) runs
\* every getById up to its first await, then the batch awaits allSettled
BatchCall(l, ids) ==
    /\ task.pc \in {"idle", "returned"}
    /\ Quiescent
    /\ Len(ids) <= MaxCalls
    /\ calls' = [c \in Slots |->
                   IF c <= Len(ids) THEN GetByIdCall(l, ids[c]) ELSE IdleCall]
    /\ firstCall' = IF ids = <<>> THEN firstCall
                    ELSE [firstCall EXCEPT ![l] = TRUE]
    /\ task' = [fn |-> "batch", level |-> l, ids |-> ids, pc |-> "allSettled",
                value |-> NoResult]
    /\ UNCHANGED <<seed, fuzzyVars, cacheVars, loads, memoVars>>

\* every promise of the batch has settled: the batch resumes and returns
BatchReturn ==
    /\ task.fn = "batch"
    /\ task.pc = "allSettled"
    /\ \A c \in 1..Len(task.ids) : calls[c].pc = "done"
    /\ task' = [task EXCEPT
                  !.pc = "returned",
                  !.value = Ok(batchResult([c \in 1..Len(task.ids) |->
                                              calls[c].result], task.ids))]
    /\ UNCHANGED <<seed, fuzzyVars, cacheVars, calls, loads, firstCall, memoVars>>

(***************************************************************************)
(* SpecBatch: batch lookups over the default dataset, one batch at a time. *)
(***************************************************************************)
\* the ID lists of a batch: known and unknown IDs, repeated or not
BatchIds(l) ==
    IF l = "province" THEN {"01", "02", "999"} ELSE {"00004", "00012", "999"}

BatchLists(l) == UNION { [1..n -> BatchIds(l)] : n \in 0..MaxCalls }

InitBatch ==
    /\ seed = DefaultSeed
    /\ calls = [c \in 1..MaxCalls |-> IdleCall]
    /\ InitCache
    /\ InitMemo
    /\ InitNoFuzzy
    /\ InitNoTask

NextBatch ==
    \/ \E l \in Levels : \E ids \in BatchLists(l) : BatchCall(l, ids)
    \/ \E c \in Slots : ImportResolved(c)
    \/ \E c \in Slots : Resume(c)
    \/ BatchReturn

SpecBatch == InitBatch /\ [][NextBatch]_vars

\* the record of the dataset of level l with the ID id, if there is one
RecordWithId(l, id) ==
    CHOOSE r \in Range(seed[l]) : r[idFieldOf(l)] = id

HasRecord(l, id) == \E r \in Range(seed[l]) : r[idFieldOf(l)] = id

\* what the positions of ids contribute to success, in input order
RECURSIVE FoundOf(_, _)
FoundOf(l, ids) ==
    IF ids = <<>> THEN <<>>
    ELSE (IF HasRecord(l, Head(ids)) THEN <<RecordWithId(l, Head(ids))>> ELSE <<>>)
         \o FoundOf(l, Tail(ids))

\* what the positions of ids contribute to failed, in input order
RECURSIVE MissingOf(_, _)
MissingOf(l, ids) ==
    IF ids = <<>> THEN <<>>
    ELSE (IF HasRecord(l, Head(ids)) THEN <<>> ELSE <<Head(ids)>>)
         \o MissingOf(l, Tail(ids))

\* C21: a batch lookup partitions its input: position i contributes the
\* record with the ID ids[i] to success when there is one and ids[i] to
\* failed otherwise, both lists in input order, so that
\* |success| + |failed| = |ids|
C21_BatchPartitions ==
    (task.fn = "batch" /\ task.pc = "returned") =>
      /\ task.value.tag = "ok"
      /\ task.value.value.success = FoundOf(task.level, task.ids)
      /\ task.value.value.failed = MissingOf(task.level, task.ids)
      /\ Len(task.value.value.success) + Len(task.value.value.failed)
           = Len(task.ids)

\* a returned batch of a repeated ID of a record, and one of a known and an
\* unknown ID together
C21_Witness ==
    /\ task.fn = "batch"
    /\ task.pc = "returned"
    /\ Len(task.ids) = 2
    /\ \/ /\ task.ids[1] = task.ids[2]
          /\ Len(task.value.value.success) = 2
       \/ /\ Len(task.value.value.success) = 1
          /\ Len(task.value.value.failed) = 1
          /\ task.ids[1] = "999"

(***************************************************************************)
(* Validation.  validateAddressHierarchy(provinceId, wardId) calls         *)
(* validateProvinceId and validateWardId in one synchronous run, awaits    *)
(* Promise.all of the two, and then compares ward.idProvince.  The call of *)
(* getProvinceById takes slot 1, the call of getWardById slot 2; a         *)
(* validator that rejects its argument on the format test calls nothing.   *)
(***************************************************************************)
\* the number of characters of an ID, all of them digits
idLength(id) ==
    CASE id = "" -> 0
      [] id \in {"01", "02", "03", "04"} -> 2
      [] id = "999" -> 3
      [] OTHER -> 5

\* the digits /^\d{2}$/ and /^\d{5}$/ ask for
IdDigits == [province |-> 2, ward |-> 5]

\* if (!provinceId || typeof provinceId !== 'string')
rejectedOnFormat(id) == id = ""

LevelTitle == [province |-> "Province", ward |-> "Ward"]
DigitsText == [province |-> "2-digit", ward |-> "5-digit"]

\* validateProvinceId / validateWardId, given the outcome of the getById
validateId(l, id, found) ==
    IF rejectedOnFormat(id)
    THEN Ok([isValid |-> FALSE,
             errors |-> << <<LevelTitle[l], "ID must be a non-empty string">> >>,
             warnings |-> <<>>, data |-> Undefined])
    ELSE IF found.tag # "ok" THEN Threw
    ELSE IF found.value = Undefined
    THEN Ok([isValid |-> FALSE,
             errors |-> << <<LevelTitle[l], id, "does not exist">> >>,
             warnings |-> IF idLength(id) = IdDigits[l] THEN <<>>
                          ELSE << <<LevelTitle[l], "ID should be a", DigitsText[l],
                                    "number">> >>,
             data |-> Undefined])
    ELSE Ok([isValid |-> TRUE, errors |-> <<>>,
             warnings |-> IF idLength(id) = IdDigits[l] THEN <<>>
                          ELSE << <<LevelTitle[l], "ID should be a", DigitsText[l],
                                    "number">> >>,
             data |-> found.value])

\* mutant: the relationship of the two records is not looked at
belongsWhatever(ward, provinceId) == TRUE

\* !(ward.idProvince !== provinceId)
belongs(ward, provinceId) == ward.idProvince = provinceId

\* validateAddressHierarchy after `await Promise.all([...])`
hierarchyResult(provinceId, wardId, provinceResult, wardResult) ==
    IF provinceResult.tag # "ok" \/ wardResult.tag # "ok" THEN Threw
    ELSE LET p == provinceResult.value
             w == wardResult.value
             errors == p.errors \o w.errors
             warnings == p.warnings \o w.warnings
         IN  IF ~p.isValid \/ ~w.isValid
             THEN Ok([isValid |-> FALSE, errors |-> errors,
                      warnings |-> warnings, hierarchy |-> <<>>])
             ELSE LET all == errors \o
                        (IF belongs(w.data, provinceId) THEN <<>>
                         ELSE << <<"Ward", wardId, "does not belong to province",
                                   provinceId>> >>)
                  IN  Ok([isValid |-> all = <<>>, errors |-> all,
                          warnings |-> warnings,
                          hierarchy |-> <<p.data, w.data>>])

\* validateAddressHierarchy(provinceId, wardId) is called: both validators
\* run up to the await of their getById
ValidateCall(provinceId, wardId) ==
    /\ task.pc \in {"idle", "returned"}
    /\ Quiescent
    /\ calls' = [c \in Slots |->
                   IF c = 1 /\ ~rejectedOnFormat(provinceId)
                   THEN GetByIdCall("province", provinceId)
                   ELSE IF c = 2 /\ ~rejectedOnFormat(wardId)
                   THEN GetByIdCall("ward", wardId)
                   ELSE IdleCall]
    /\ firstCall' = [l \in Levels |->
                       \/ firstCall[l]
                       \/ l = "province" /\ ~rejectedOnFormat(provinceId)
                       \/ l = "ward" /\ ~rejectedOnFormat(wardId)]
    /\ task' = [fn |-> "validate", level |-> "none",
                ids |-> <<provinceId, wardId>>, pc |-> "all",
                value |-> NoResult]
    /\ UNCHANGED <<seed, fuzzyVars, cacheVars, loads, memoVars>>

\* both validators have returned: validateAddressHierarchy resumes
ValidateReturn ==
    /\ task.fn = "validate"
    /\ task.pc = "all"
    /\ \A c \in 1..2 : calls[c].pc \in {"idle", "done"}
    /\ task' = [task EXCEPT
                  !.pc = "returned",
                  !.value = hierarchyResult(task.ids[1], task.ids[2],
                              validateId("province", task.ids[1], calls[1].result),
                              validateId("ward", task.ids[2], calls[2].result))]
    /\ UNCHANGED <<seed, fuzzyVars, cacheVars, calls, loads, firstCall, memoVars>>

(***************************************************************************)
(* SpecValidate: validations over the default dataset, one at a time.      *)
(***************************************************************************)
ValidatedProvinceIds == {"01", "02", "999", ""}
ValidatedWardIds == {"00004", "00008", "999", ""}

NextValidate ==
    \/ \E p \in ValidatedProvinceIds, w \in ValidatedWardIds : ValidateCall(p, w)
    \/ \E c \in Slots : ImportResolved(c)
    \/ \E c \in Slots : Resume(c)
    \/ ValidateReturn

SpecValidate == InitBatch /\ [][NextValidate]_vars

\* C22: validateAddressHierarchy returns isValid = true exactly when the
\* province exists, the ward exists and the ward's idProvince is the
\* province's ID; isValid is true iff errors is empty; the call does not
\* throw, whatever the IDs
C22_ValidHierarchy ==
    (task.fn = "validate" /\ task.pc = "returned") =>
      /\ task.value.tag = "ok"
      /\ task.value.value.isValid <=>
           /\ HasRecord("province", task.ids[1])
           /\ HasRecord("ward", task.ids[2])
           /\ RecordWithId("ward", task.ids[2]).idProvince = task.ids[1]
      /\ task.value.value.isValid <=> task.value.value.errors = <<>>

\* a validation of two records that exist and do not belong together
C22_Witness ==
    /\ task.fn = "validate"
    /\ task.pc = "returned"
    /\ HasRecord("province", task.ids[1])
    /\ HasRecord("ward", task.ids[2])
    /\ ~task.value.value.isValid

(***************************************************************************)
(* Claims about the contents of the cache.                                 *)
(***************************************************************************)
\* the dataset and the index maps of level l
ContentsOf(l) ==
    <<data[l], idMap[l], searchIndex[l],
      IF l \in ParentLevels THEN parentMap[l] ELSE Unassigned>>

\* a step in which the body of the load of level l runs again
LoadsAgain(l) == loads[l] >= 1 /\ loads'[l] = loads[l] + 1

\* the value call c returned is the value its accessor returns on the
\* structures as they are now
ReturnsTheSameNow(c) ==
    calls[c].result = accessorResult(calls[c].op, calls[c].level, calls[c].arg)

\* C23: a second run of the load of a level leaves the dataset and every
\* index map of the level with the contents the first run gave them, so
\* that an accessor returns after it what it returned before it: the value
\* of every call that has returned, before or after the second run, is the
\* value the structures give now
C23_DuplicateLoadHarmless ==
    /\ [][\A l \in Levels :
            LoadsAgain(l) => /\ ContentsOf(l)' = ContentsOf(l)
                             /\ loaded[l] /\ loaded'[l]]_vars
    /\ [](\A c \in Slots :
            (calls[c].pc = "done" /\ loads[calls[c].level] >= 2) =>
              ReturnsTheSameNow(c))

\* the load of the ward level has run twice
C23_Witness ==
    /\ loads["ward"] = 2
    /\ loaded["ward"]
    /\ \E c \in Slots : calls[c].pc = "done" /\ calls[c].level = "ward"

\* the records of the dataset of level l whose parent ID is p, in dataset order
ChildrenIn(l, p) ==
    SelectSeq(seed[l], LAMBDA r : r[parentIdFieldOf(l)] = p)

\* C24: getChildren(level, p) returns exactly the subsequence of the level's
\* dataset that consists of the records whose parent ID is p, in dataset
\* order
C24_ChildrenInDatasetOrder ==
    \A c \in Slots :
      Returned(c, "getChildren") =>
        calls[c].result = Ok(ChildrenIn(calls[c].level, calls[c].arg))

\* a getChildren that returned two records of a dataset
C24_Witness ==
    \E c \in Slots :
      /\ Returned(c, "getChildren")
      /\ calls[c].result.tag = "ok"
      /\ Len(calls[c].result.value) = 2

\* C25: in the search index a record appears at most once in the bucket of
\* any single key, whatever its name is
C25_BucketHoldsRecordOnce ==
    \A l \in Levels :
      searchIndex[l].assigned =>
        \A i \in 1..Len(searchIndex[l].entries) :
          NoDuplicates(searchIndex[l].entries[i].value)

indexOf(s, t) ==
    IF includes(s, t)
    THEN CHOOSE i \in 0..(Len(s) - Len(t)) :
           /\ SubSeq(s, i + 1, i + Len(t)) = t
           /\ \A j \in 0..(i - 1) : SubSeq(s, j + 1, j + Len(t)) # t
    ELSE -1

\* for (const word of words) { if (word.startsWith(q)) { score = ...; break } }
RECURSIVE wordScore(_, _)
wordScore(words, normalizedQuery) ==
    IF words = <<>> THEN 0
    ELSE IF startsWith(Head(words), normalizedQuery)
    THEN 50 - (Len(Head(words)) - Len(normalizedQuery))
    ELSE wordScore(Tail(words), normalizedQuery)

\* the score the loop of an autocomplete function gives to a record name
autocompleteScore(normalizedName, normalizedQuery) ==
    IF normalizedName = normalizedQuery THEN 100
    ELSE IF startsWith(normalizedName, normalizedQuery)
    THEN 90 - (Len(normalizedName) - Len(normalizedQuery))
    ELSE IF includes(normalizedName, normalizedQuery)
    THEN 70 - indexOf(normalizedName, normalizedQuery) * 2
    ELSE wordScore(splitWs(normalizedName), normalizedQuery)

\* provinceMap.get(ward.idProvince)
parentNameOf(provinces, id) ==
    IF \E i \in 1..Len(provinces) : provinces[i].idProvince = id
    THEN LET last == CHOOSE i \in 1..Len(provinces) :
                       /\ provinces[i].idProvince = id
                       /\ \A j \in (i + 1)..Len(provinces) :
                            provinces[j].idProvince # id
         IN  provinces[last].name
    ELSE Undefined

\* the AutocompleteResult pushed for a record
suggestion(l, record, score, provinces) ==
    IF l = "province"
    THEN [type |-> l, id |-> record.idProvince, name |-> record.name,
          score |-> score]
    ELSE [type |-> l, id |-> record.idWard, name |-> record.name,
          parentName |-> parentNameOf(provinces, record.idProvince),
          score |-> score]

\* the loop: if (score > 0) results.push({...}), in dataset order
RECURSIVE pushSuggestions(_, _, _, _)
pushSuggestions(l, records, normalizedQuery, provinces) ==
    IF records = <<>> THEN <<>>
    ELSE LET score == autocompleteScore(normalizeText(Head(records).name),
                                        normalizedQuery)
         IN  (IF score > 0
              THEN <<suggestion(l, Head(records), score, provinces)>>
              ELSE <<>>)
             \o pushSuggestions(l, Tail(records), normalizedQuery, provinces)

\* limit: number = 10
DefaultLimit == 10

\* the value of the parameter limit of a call
limitOf(args) == IF "limit" \in DOMAIN args THEN args.limit ELSE DefaultLimit

\* provinceId ? wards.filter((d) => d.idProvince === provinceId) : wards
filteredWards(wards, args) ==
    IF "provinceId" \in DOMAIN args /\ args.provinceId # ""
    THEN SelectSeq(wards, LAMBDA d : d.idProvince = args.provinceId)
    ELSE wards

\* results.sort((a, b) => b.score - a.score).slice(0, limit)
topSuggestions(results, limit) == slice0(stableSort(results, "points"), limit)

\* getProvinceAutocomplete(query, limit)
getProvinceAutocomplete(d, query, args) ==
    topSuggestions(pushSuggestions("province", d["province"],
                                   normalizeText(query), d["province"]),
                   limitOf(args))

\* getWardAutocomplete(query, provinceId, limit)
getWardAutocomplete(d, query, args) ==
    topSuggestions(pushSuggestions("ward", filteredWards(d["ward"], args),
                                   normalizeText(query), d["province"]),
                   limitOf(args))

(***************************************************************************)
(* SpecAutocomplete: one call of an autocomplete function over every small *)
(* dataset of the names below.                                             *)
(***************************************************************************)
\* a name that holds "b" at the position 35 and nowhere before
LongName == [i \in 1..36 |-> IF i = 36 THEN "b" ELSE "a"]

AutocompleteNames ==
    { <<"A'", "b">>, <<"b", " ", "a", "b">>, <<"a", "a", "b">>, LongName }

AutocompleteQueries ==
    { <<>>, <<"b">>, <<" ", "A'", "B">>, <<"a", "b">>, <<"x">> }

\* the i-th ward lies in the i-th province; the wards have the names of the
\* provinces in the opposite order
AutocompleteDataOf(names) ==
    [province |-> [i \in 1..Len(names) |-> Province(ProvinceIds[i], names[i])],
     ward |-> [i \in 1..Len(names) |->
                 Ward(WardIds[i], ProvinceIds[i], names[Len(names) + 1 - i])]]

AutocompleteArgs ==
    { p @@ k : p \in With("provinceId", {"01"}), k \in With("limit", {0, 1, 2}) }

InitAutocomplete ==
    /\ seed = DefaultSeed
    /\ calls = [c \in 1..1 |-> IdleCall]
    /\ InitCache
    /\ InitMemo
    /\ InitNoTask
    /\ fuzzyOut = NoFuzzyCall
    /\ \E n \in 0..MaxRecords : \E names \in [1..n -> AutocompleteNames] :
         \E query \in AutocompleteQueries, args \in AutocompleteArgs :
           fuzzyIn = FuzzyArgs(AutocompleteDataOf(names), query, args)

GetProvinceAutocomplete ==
    /\ fuzzyIn.fn = "call"
    /\ "provinceId" \notin DOMAIN fuzzyIn.options
    /\ Returns("getProvinceAutocomplete", "province", <<>>,
               getProvinceAutocomplete(fuzzyIn.data, fuzzyIn.query,
                                       fuzzyIn.options))

GetWardAutocomplete ==
    /\ fuzzyIn.fn = "call"
    /\ Returns("getWardAutocomplete", "ward", <<>>,
               getWardAutocomplete(fuzzyIn.data, fuzzyIn.query, fuzzyIn.options))

NextAutocomplete == GetProvinceAutocomplete \/ GetWardAutocomplete

SpecAutocomplete == InitAutocomplete /\ [][NextAutocomplete]_vars

\* the records an autocomplete call looks at
CandidatesOf(out) ==
    IF out.fn = "getProvinceAutocomplete" THEN fuzzyIn.data["province"]
    ELSE filteredWards(fuzzyIn.data["ward"], fuzzyIn.options)

\* the normalized name equals, starts with, or contains the normalized query
NameMatches(name, query) == includes(normalizeText(name), normalizeText(query))

\* the record is an item of the returned list
Suggested(out, record) ==
    \E i \in 1..Len(out.value) :
      out.value[i].id = record[idFieldOf(out.level)]

C28_EmptyQueryMatchesAll ==
    /\ fuzzyOut.fn = "fuzzySearch"
    /\ "threshold" \notin DOMAIN fuzzyIn.options
    /\ normalizeText(fuzzyIn.query) = <<>>
    => LET maxResults == IF "maxResults" \in DOMAIN fuzzyIn.options
                         THEN fuzzyIn.options.maxResults
                         ELSE DefaultMaxResults
           result == fuzzyOut.value
       IN  /\ Len(result) = Min(maxResults, Len(fuzzyIn.data[fuzzyOut.level]))
           /\ \A i \in 1..Len(result) :
                normalizeText(result[i].item.name) # <<>> =>
                  /\ result[i].type = "prefix"
                  /\ result[i].score =
                       QAdd(Q(9, 10), bonusOf("prefixMatchBonus"))

\* the records of a returned level list of universalFuzzySearch
recordsOf(list) == {list[i].item : i \in 1..Len(list)}

\* the record r is in the list, or the list holds k records with a score of
\* at least the score of r
MissingOnlyByLimit(r, list, k) ==
    \/ r \in recordsOf(list)
    \/ Cardinality({i \in 1..Len(list) : QLeq(scoreOf(r), list[i].score)}) >= k

\* C29: filter completeness of universalFuzzySearch: with
\* filters.provinceId = p, threshold t and maxResults k, a district of p
\* with a score of at least t is missing from the district list only if k
\* districts of p with at least that score are returned, and a commune whose
\* district belongs to p, with a score of at least t, is missing from the
\* commune list only if k such communes with at least that score are
\* returned
C29_ProvinceFilterComplete ==
    /\ fuzzyOut.fn = "universalFuzzySearch"
    /\ hasFilter(fuzzyIn.options, "provinceId")
    /\ ~hasFilter(fuzzyIn.options, "districtId")
    /\ ~hasFilter(fuzzyIn.options, "type")
    => LET p == fuzzyIn.options.filters.provinceId
           t == IF "threshold" \in DOMAIN fuzzyIn.options
                THEN fuzzyIn.options.threshold ELSE DefaultThreshold
           k == IF "maxResults" \in DOMAIN fuzzyIn.options
                THEN fuzzyIn.options.maxResults ELSE DefaultMaxResults
       IN  /\ \A r \in Range(fuzzyIn.data["district"]) :
                (r.idProvince = p /\ QLeq(t, scoreOf(r))) =>
                  MissingOnlyByLimit(r, fuzzyOut.value.districts, k)
           /\ \A r \in Range(fuzzyIn.data["commune"]) :
                (provinceOfDistrict(r.idDistrict) = {p} /\ QLeq(t, scoreOf(r))) =>
                  MissingOnlyByLimit(r, fuzzyOut.value.communes, k)

(***************************************************************************)
(* Failures.  The dynamic import of the seeds can reject (the chunk is not *)
(* fetched, the module throws while it is evaluated).  The rejection       *)
(* leaves load<Level>Data at its await, so nothing after it runs; it       *)
(* rejects the accessor that awaits the load and, through it, the wrapped  *)
(* function of a memoized call.                                            *)
(***************************************************************************)
\* The import has rejected for call c: the accessor's promise rejects, and
\* so does the promise of the memoized call that awaits the accessor.
ImportRejected(c) ==
    /\ calls[c].pc = "import"
    /\ calls' = [calls EXCEPT ![c].pc = "done", ![c].result = Threw]
    /\ promises' = IF calls[c].promise = 0 THEN promises
                   ELSE [promises EXCEPT ![calls[c].promise] =
                           [@ EXCEPT !.state = "rejected", !.value = Threw]]
    /\ UNCHANGED <<task, seed, fuzzyVars, cacheVars, loads, firstCall, memoCache,
                   invocations, lastMemo>>

(***************************************************************************)
(* SpecFailure: accessor calls and memoized calls with imports that can    *)
(* reject.                                                                 *)
(***************************************************************************)
FailureMemoArgs ==
    { <<"getAllProvincesSorted", <<>> >>,
      <<"searchWardByName", << <<"b", "a">> >> >> }

NextFailure ==
    \/ \E c \in Slots : Call(c, "getById", "province", "01")
    \/ \E c \in Slots : \E m \in FailureMemoArgs : MemoCall(c, m[1], m[2])
    \/ \E c \in Slots : ImportResolved(c)
    \/ \E c \in Slots : ImportRejected(c)
    \/ \E c \in Slots : Resume(c)
    \/ \E c \in Slots : MemoResume(c)

SpecFailure == Init /\ [][NextFailure]_vars

\* the step is the rejection of the import of call c
RejectsImport(c) ==
    calls[c].pc = "import" /\ calls'[c].pc = "done" /\ calls'[c].result = Threw

\* the step starts an accessor in slot c
StartsCall(c) ==
    calls[c].pc \in {"idle", "done"} /\ calls'[c].pc \in {"import", "await"}

\* the step is a call of a memoized function that returns a stored promise
ReturnsStored == lastMemo' # lastMemo /\ lastMemo'.hit

\* C30: failures are not retained: a failed import does not set the loaded
\* flag of the level, and a later accessor call of a level that is not loaded
\* starts the import again; a call of a memoized function does not return a
\* stored promise that is rejected, it calls the wrapped function again
C30_FailuresNotRetained ==
    [][/\ \A c \in Slots : RejectsImport(c) => loaded' = loaded
       /\ \A c \in Slots :
            (StartsCall(c) /\ ~loaded[calls'[c].level]) => calls'[c].pc = "import"
       /\ ReturnsStored => promises[lastMemo'.promise].state # "rejected"]_vars

====
